---- MODULE Spec2Model ----
(***************************************************************************)
(* Model of the credential-based scraping engine of                        *)
(* social-media-scraper-api: RealisticScrapingService (scrapeWithCreden-   *)
(* tials, testCredentials), the POST /api/scrape/credentials route and the *)
(* session directory they share.                                           *)
(*                                                                         *)
(* Time: one model unit is 1000 ms (every duration in the code is a        *)
(* multiple of 1000 ms).  An error message is the sequence of its words;   *)
(* String.includes is the search for a run of words (case-sensitive).      *)
(***************************************************************************)
EXTENDS Integers, Sequences, FiniteSets, TLC

\* ------------------------------------------------------------------ bounds
MaxNow == 3000006

MaxWindows == 2
MaxWindowed == 8
MaxHits == 7

\* --------------------------------------------------------------- constants
T0 == 3000000
maxScrollsTwitter == 10
postLimitTwitter == 50
RaceDelay == 3
ProbeTimeout == 10
Never == 99

Requests == {1, 2}

NoValue == "undefined"
NoDir == <<>>
NoError == <<>>
NaN == -1

\* ------------------------------------------------------------ environment
\* An e-mail address: its first six characters and the rest.
Emails ==
    { [local6 |-> "alice1", rest |-> "@x.io"],
      [local6 |-> "bobby7", rest |-> "@x.io"] }

\* Buffer.from(email).toString('base64').slice(0, 8): the first 8 base64
\* characters encode exactly the first 6 bytes of the address.
Base64Slice8(email) ==
    CASE email.local6 = "alice1" -> "YWxpY2Ux"
      [] email.local6 = "alice2" -> "YWxpY2Uy"
      [] email.local6 = "bobby7" -> "Ym9iYnk3"

\* scraperConfigs: the platforms that have a configuration, and their
\* login URL as words (the word "login" is what String.includes can find).
scraperConfigs ==
    [ twitter   |-> [loginUrl |-> <<"https://twitter.com/", "login">>,
                     profileBase |-> "https://twitter.com/"],
      instagram |-> [loginUrl |-> <<"https://www.instagram.com/accounts/", "login", "/">>,
                     profileBase |-> "https://www.instagram.com/"],
      linkedin  |-> [loginUrl |-> <<"https://www.linkedin.com/", "login">>,
                     profileBase |-> "https://www.linkedin.com/in/"] ]

HasConfig(platform) == platform \in DOMAIN scraperConfigs

\* ------------------------------------------------------------- messages
Includes(msg, needle) ==
    \E i \in 1..Len(msg) :
        /\ i + Len(needle) - 1 <= Len(msg)
        /\ SubSeq(msg, i, i + Len(needle) - 1) = needle

ErrUnsupported(platform) ==
    <<"Unsupported", "platform", ":", platform, ".", "Supported", "platforms", ":",
      "twitter", ",", "instagram", ",", "linkedin">>
ErrLaunch == <<"Failed", "to", "launch", "the", "browser", "process", "!">>
ErrAlreadyRunning ==
    <<"The", "browser", "is", "already", "running", "for", "userDataDir", ".">>
ErrNet(url) == <<"net::ERR_CONNECTION_RESET", "at">> \o url
ErrNavTimeout == <<"Navigation", "timeout", "of", "30000", "ms", "exceeded">>
ErrSelector(sel) ==
    <<"Waiting", "for", "selector", sel, "failed", ":", "Waiting", "failed", ":",
      "15000ms", "exceeded">>
ErrVerification ==
    <<"Additional", "verification", "required", "-", "please", "complete", "manually">>
Err2FAProduction ==
    <<"2FA", "required", "but", "running", "in", "production", "mode", "-",
      "manual", "intervention", "needed">>
Err2FATimeout ==
    <<"2FA", "timeout", "-", "please", "complete", "verification", "within",
      "2", "minutes">>
ErrLoginVerification(m) == <<"Login", "verification", "failed", ":">> \o m
ErrAuthenticationFailed(m) ==
    <<"Authentication", "failed", ":">> \o m
        \o <<".", "Session", "cleared", "-", "please", "retry", ".">>
ErrReference == <<"userDataDir", "is", "not", "defined">>
ErrNotImplemented(platform) ==
    <<"Scraping", "not", "implemented", "for", "platform", ":", platform>>
ErrNoLoginUrl ==
    <<"Cannot", "read", "properties", "of", "undefined", "(", "reading",
      "'loginUrl'", ")">>

\* ------------------------------------------------------- session directory
\* path.join(sessionDir, name): a directory name is <<prefix, platform, key>>
\* (prefix is "test" for testCredentials, "" otherwise).
UserDataDir(platform, email, sessionId) ==
    IF sessionId # NoValue
    THEN <<"", platform, sessionId>>
    ELSE <<"", platform, Base64Slice8(email)>>

TestUserDataDir(platform, sessionId, dateNow) ==
    IF sessionId # NoValue
    THEN <<"test", platform, sessionId>>
    ELSE <<"test", platform, ToString(dateNow)>>

\* platformSettings of scraperConfigs.js: the settings of the platforms the
\* service has acquisition loops for.
platformSettings ==
    [ twitter  |-> [maxScrolls |-> 5, postLimit |-> 50],
      facebook |-> [maxScrolls |-> 6, postLimit |-> 40] ]

\* ------------------------------------------------------------ timeframe
HourMs == 60 * 60
DayMs == 24 * 60 * 60

\* timeMap is an object literal: timeMap[timeframe] also finds the members
\* of Object.prototype, which are functions or objects (truthy), so the
\* '|| timeMap["7d"]' fallback does not apply to them.
ObjectPrototypeKeys ==
    {"constructor", "toString", "valueOf", "hasOwnProperty", "__proto__"}

\* A value that is not a number (a member of Object.prototype).
InheritedMember == -2

\* timeMap[timeframe] || timeMap['7d']
parseTimeframe(timeframe) ==
    CASE timeframe = "1h"  -> HourMs
      [] timeframe = "6h"  -> 6 * HourMs
      [] timeframe = "12h" -> 12 * HourMs
      [] timeframe = "1d"  -> DayMs
      [] timeframe = "3d"  -> 3 * DayMs
      [] timeframe = "7d"  -> 7 * DayMs
      [] timeframe = "30d" -> 30 * DayMs
      [] timeframe \in ObjectPrototypeKeys -> InheritedMember
      [] OTHER -> 7 * DayMs

\* Faulty variant: the cutoff ignores the requested timeframe.
CutoffDateWidest(dateNow, timeframe) == dateNow - parseTimeframe("30d")

\* new Date(Date.now() - parseTimeframe(timeframe)): a number minus a
\* function is NaN, the date is invalid.
CutoffDate(dateNow, timeframe) ==
    IF parseTimeframe(timeframe) = InheritedMember THEN NaN
    ELSE dateNow - parseTimeframe(timeframe)

\* ------------------------------------------------------------ parseStats
\* A text is the sequence of its tokens, in order: numbers (digits and
\* commas, starting with a digit) and words, both as sequences of
\* characters; blanks between tokens are what \s* skips.
Num(chars) == [num |-> TRUE, chars |-> chars]
Word(chars) == [num |-> FALSE, chars |-> chars]

\* The /i flag.
LowerAll(chars) ==
    [i \in 1..Len(chars) |->
        CASE chars[i] = "L" -> "l" [] chars[i] = "C" -> "c"
          [] chars[i] = "R" -> "r" [] chars[i] = "V" -> "v"
          [] chars[i] = "Y" -> "y" [] chars[i] = "H" -> "h"
          [] chars[i] = "A" -> "a" [] chars[i] = "M" -> "m"
          [] OTHER -> chars[i]]

StartsWith(chars, kw) ==
    Len(kw) <= Len(chars) /\ SubSeq(LowerAll(chars), 1, Len(kw)) = kw

Contains(chars, kw) ==
    \E i \in 1..Len(chars) :
        /\ i + Len(kw) - 1 <= Len(chars)
        /\ SubSeq(LowerAll(chars), i, i + Len(kw) - 1) = kw

\* A keyword is a sequence of words ('people reacted' has two): the tokens
\* after position i are these words, the last one as a prefix.
RECURSIVE KeywordAt(_, _, _)
KeywordAt(text, i, kw) ==
    /\ i + 1 <= Len(text)
    /\ ~text[i + 1].num
    /\ IF Len(kw) = 1
       THEN StartsWith(text[i + 1].chars, kw[1])
       ELSE /\ LowerAll(text[i + 1].chars) = kw[1]
            /\ KeywordAt(text, i + 1, Tail(kw))

\* /(\d+[\d,]*)\s*(kw1|kw2|...)/i : the capture of the leftmost match, <<>>
\* when there is none.
NumberBefore(text, kws) ==
    LET at == { i \in 1..Len(text) :
                    text[i].num /\ \E kw \in kws : KeywordAt(text, i, kw) }
    IN IF at = {} THEN <<>>
       ELSE text[CHOOSE i \in at : \A j \in at : i <= j].chars

\* /kw.*?(\d+[\d,]*)/i : the first number after the leftmost word that
\* contains kw.
NumberAfter(text, kw) ==
    LET at == { j \in 1..Len(text) :
                    /\ text[j].num
                    /\ \E i \in 1..(j - 1) :
                          ~text[i].num /\ Contains(text[i].chars, kw) }
    IN IF at = {} THEN <<>>
       ELSE text[CHOOSE j \in at : \A k \in at : j <= k].chars

Before(kws) == [before |-> TRUE, kws |-> kws]
After1(kw) == [before |-> FALSE, kws |-> {<<kw>>}]

\* statsText.match(pattern)[1]
Capture(text, pattern) ==
    IF pattern.before THEN NumberBefore(text, pattern.kws)
    ELSE NumberAfter(text, (CHOOSE kw \in pattern.kws : TRUE)[1])

\* The words the patterns look for.
Keyword ==
    [ like |-> <<"l", "i", "k", "e">>,
      heart |-> <<"h", "e", "a", "r", "t">>,
      retweet |-> <<"r", "e", "t", "w", "e", "e", "t">>,
      repost |-> <<"r", "e", "p", "o", "s", "t">>,
      repl |-> <<"r", "e", "p", "l">>,
      replie |-> <<"r", "e", "p", "l", "i", "e">>,
      reply |-> <<"r", "e", "p", "l", "y">>,
      comment |-> <<"c", "o", "m", "m", "e", "n", "t">>,
      reaction |-> <<"r", "e", "a", "c", "t", "i", "o", "n">>,
      people |-> <<"p", "e", "o", "p", "l", "e">>,
      reacted |-> <<"r", "e", "a", "c", "t", "e", "d">>,
      share |-> <<"s", "h", "a", "r", "e">>,
      view |-> <<"v", "i", "e", "w">>,
      play |-> <<"p", "l", "a", "y">>,
      dislike |-> <<"d", "i", "s", "l", "i", "k", "e">>,
      subscriber |-> <<"s", "u", "b", "s", "c", "r", "i", "b", "e", "r">>,
      sub |-> <<"s", "u", "b">>,
      impression |-> <<"i", "m", "p", "r", "e", "s", "s", "i", "o", "n">> ]

\* platformPatterns (the emoji alternatives are left out: no text of the
\* model holds one).
platformPatterns ==
    [ twitter |->
        [ likes    |-> <<Before({<<Keyword.like>>, <<Keyword.heart>>}), Before({<<Keyword.like>>})>>,
          retweets |-> <<Before({<<Keyword.retweet>>, <<Keyword.repost>>}),
                         Before({<<Keyword.retweet>>})>>,
          replies  |-> <<Before({<<Keyword.repl>>, <<Keyword.comment>>}),
                         Before({<<Keyword.replie>>})>> ],
      facebook |->
        [ likes    |-> <<Before({<<Keyword.like>>, <<Keyword.reaction>>}),
                         Before({<<Keyword.people, Keyword.reacted>>})>>,
          comments |-> <<Before({<<Keyword.comment>>}), Before({<<Keyword.comment>>})>>,
          shares   |-> <<Before({<<Keyword.share>>}), Before({<<Keyword.share>>})>> ],
      instagram |->
        [ likes    |-> <<Before({<<Keyword.like>>}), Before({<<Keyword.like>>})>>,
          comments |-> <<Before({<<Keyword.comment>>}), Before({<<Keyword.comment>>})>>,
          views    |-> <<Before({<<Keyword.view>>}), Before({<<Keyword.view>>})>> ],
      tiktok |->
        [ likes    |-> <<Before({<<Keyword.like>>}), Before({<<Keyword.like>>})>>,
          comments |-> <<Before({<<Keyword.comment>>}), Before({<<Keyword.comment>>})>>,
          shares   |-> <<Before({<<Keyword.share>>}), Before({<<Keyword.share>>})>>,
          views    |-> <<Before({<<Keyword.view>>, <<Keyword.play>>}), Before({<<Keyword.view>>})>> ],
      youtube |->
        [ likes    |-> <<Before({<<Keyword.like>>}), Before({<<Keyword.like>>})>>,
          dislikes |-> <<Before({<<Keyword.dislike>>}), Before({<<Keyword.dislike>>})>>,
          views    |-> <<Before({<<Keyword.view>>}), Before({<<Keyword.view>>})>>,
          subscribers |-> <<Before({<<Keyword.subscriber>>, <<Keyword.sub>>}),
                            Before({<<Keyword.subscriber>>})>> ] ]

commonPatterns ==
    [ likes    |-> <<Before({<<Keyword.like>>, <<Keyword.heart>>}), Before({<<Keyword.like>>}),
                     After1(Keyword.like)>>,
      comments |-> <<Before({<<Keyword.comment>>, <<Keyword.reply>>}), Before({<<Keyword.comment>>}),
                     After1(Keyword.comment)>>,
      shares   |-> <<Before({<<Keyword.share>>, <<Keyword.retweet>>, <<Keyword.repost>>}),
                     Before({<<Keyword.share>>, <<Keyword.retweet>>, <<Keyword.repost>>}),
                     After1(Keyword.share)>>,
      views    |-> <<Before({<<Keyword.view>>, <<Keyword.impression>>}), Before({<<Keyword.view>>}),
                     After1(Keyword.view)>> ]

\* platformPatterns[platform] || commonPatterns; a member of
\* Object.prototype is truthy and has no entries of its own.
PatternsFor(platform) ==
    IF platform \in DOMAIN platformPatterns THEN platformPatterns[platform]
    ELSE IF platform \in ObjectPrototypeKeys THEN << >>
    ELSE commonPatterns

\* Faulty variant: the commas stay.
KeepCommas(chars) == chars

\* match[1].replace(/,/g, '')
StripCommas(chars) == SelectSeq(chars, LAMBDA c : c # ",")

DigitValue(c) ==
    CASE c = "0" -> 0 [] c = "1" -> 1 [] c = "2" -> 2 [] c = "3" -> 3
      [] c = "4" -> 4 [] c = "5" -> 5 [] c = "6" -> 6 [] c = "7" -> 7
      [] c = "8" -> 8 [] c = "9" -> 9 [] OTHER -> NaN

\* parseInt(chars): the digits up to the first other character (the
\* capture starts with a digit, so the result is a number).
RECURSIVE parseInt(_, _)
parseInt(chars, acc) ==
    IF chars = <<>> \/ DigitValue(Head(chars)) = NaN THEN acc
    ELSE parseInt(Tail(chars), 10 * acc + DigitValue(Head(chars)))

\* for (const pattern of patternArray): the capture of the first pattern
\* that matches, <<>> when none does.
RECURSIVE FirstCapture(_, _)
FirstCapture(text, patternArray) ==
    IF patternArray = <<>> THEN <<>>
    ELSE IF Capture(text, Head(patternArray)) # <<>>
         THEN Capture(text, Head(patternArray))
         ELSE FirstCapture(text, Tail(patternArray))

NoStats == [key \in {} |-> 0]

parseStats(statsText, platform) ==
    IF statsText = <<>> THEN NoStats
    ELSE LET patterns == PatternsFor(platform)
             keys == { key \in DOMAIN patterns :
                            FirstCapture(statsText, patterns[key]) # <<>> }
         IN [ key \in keys |->
                parseInt(StripCommas(FirstCapture(statsText, patterns[key])), 0) ]

\* ------------------------------------------------------------- date texts
\* A date text is a sequence of tokens like a stats text; its numbers are
\* runs of digits.

\* /(\d+)\s*(unit1|unit2|...)s?\s*ago/i : the capture of the leftmost match,
\* <<>> when there is none.  The word after the number is a unit, an
\* optional 's', and 'ago' either in the same word or as the next word.
AgoCapture(text, units) ==
    LET ago == <<"a", "g", "o">>
        Rest(chars, pre) == SubSeq(chars, Len(pre) + 1, Len(chars))
        AgoAfter(i, pre) ==
            /\ StartsWith(text[i + 1].chars, pre)
            /\ IF Len(text[i + 1].chars) = Len(pre)
               THEN /\ i + 2 <= Len(text)
                    /\ ~text[i + 2].num
                    /\ StartsWith(text[i + 2].chars, ago)
               ELSE StartsWith(Rest(text[i + 1].chars, pre), ago)
        at == { i \in 1..Len(text) :
                    /\ text[i].num
                    /\ i + 1 <= Len(text)
                    /\ ~text[i + 1].num
                    /\ \E unit \in units, s \in {<<>>, <<"s">>} :
                          AgoAfter(i, unit \o s) }
    IN IF at = {} THEN <<>>
       ELSE text[CHOOSE i \in at : \A j \in at : i <= j].chars

\* A date the model does not follow further (the texts that reach it are
\* not relative).
SomeDate == -3

\* The names the month pattern of parseFacebookDate lists, in calendar order.
MonthNames ==
    <<<<"j", "a", "n", "u", "a", "r", "y">>, <<"f", "e", "b", "r", "u", "a", "r", "y">>,
      <<"m", "a", "r", "c", "h">>, <<"a", "p", "r", "i", "l">>, <<"m", "a", "y">>,
      <<"j", "u", "n", "e">>, <<"j", "u", "l", "y">>, <<"a", "u", "g", "u", "s", "t">>,
      <<"s", "e", "p", "t", "e", "m", "b", "e", "r">>, <<"o", "c", "t", "o", "b", "e", "r">>,
      <<"n", "o", "v", "e", "m", "b", "e", "r">>, <<"d", "e", "c", "e", "m", "b", "e", "r">>>>

\* new Date(`${monthName} ${day}, ${year}`): a day of the calendar.  Its
\* number is larger than every instant of the model clock, and later days
\* have larger numbers.
CalendarDate(year, month, day) == year * 10000 + month * 100 + day

\* new Date(dateStr).getTime() in V8, for a text of numbers and words: the
\* date is invalid when the text has no number, or a word that is no date
\* keyword (keywords are told by their first three letters) after a number.
\* A month name, a day and a four-digit year make that day of the calendar.
DateConstructor(text) ==
    LET keywords ==
            {<<"j", "a", "n">>, <<"f", "e", "b">>, <<"m", "a", "r">>, <<"a",
             "p", "r">>, <<"m", "a", "y">>, <<"j", "u", "n">>, <<"j", "u",
             "l">>, <<"a", "u", "g">>, <<"s", "e", "p">>, <<"o", "c", "t">>,
             <<"n", "o", "v">>, <<"d", "e", "c">>, <<"s", "u", "n">>, <<"m",
             "o", "n">>, <<"t", "u", "e">>, <<"w", "e", "d">>, <<"t", "h",
             "u">>, <<"f", "r", "i">>, <<"s", "a", "t">>, <<"u", "t", "c">>,
             <<"g", "m", "t">>, <<"e", "s", "t">>, <<"e", "d", "t">>, <<"c",
             "s", "t">>, <<"c", "d", "t">>, <<"m", "s", "t">>, <<"m", "d",
             "t">>, <<"p", "s", "t">>, <<"p", "d", "t">>}
        IsKeyword(chars) ==
            Len(chars) >= 3 /\ SubSeq(LowerAll(chars), 1, 3) \in keywords
        IsMonth(chars, k) ==
            Len(chars) >= 3
                /\ SubSeq(LowerAll(chars), 1, 3) = SubSeq(MonthNames[k], 1, 3)
    IN IF \/ \A i \in 1..Len(text) : ~text[i].num
          \/ \E i, j \in 1..Len(text) :
                i < j /\ text[i].num /\ ~text[j].num /\ ~IsKeyword(text[j].chars)
       THEN NaN
       ELSE IF /\ Len(text) = 3
               /\ ~text[1].num /\ \E k \in 1..12 : IsMonth(text[1].chars, k)
               /\ text[2].num /\ Len(text[2].chars) <= 2
               /\ text[3].num /\ Len(text[3].chars) = 4
       THEN CalendarDate(parseInt(text[3].chars, 0),
                         CHOOSE k \in 1..12 : IsMonth(text[1].chars, k),
                         parseInt(text[2].chars, 0))
       ELSE SomeDate

\* scraperUtils.parseDate; null is NaN.
parseDate(dateStr, dateNow) ==
    LET Ago(units) == AgoCapture(dateStr, units)
        Back(units, ms) == dateNow - parseInt(Ago(units), 0) * ms
    IN IF dateStr = <<>> THEN NaN
       ELSE IF DateConstructor(dateStr) # NaN THEN DateConstructor(dateStr)
       ELSE IF Ago({<<"s">>, <<"s", "e", "c">>, <<"s", "e", "c", "o", "n", "d">>}) # <<>>
            THEN Back({<<"s">>, <<"s", "e", "c">>, <<"s", "e", "c", "o", "n", "d">>}, 1)
       ELSE IF Ago({<<"m">>, <<"m", "i", "n">>, <<"m", "i", "n", "u", "t", "e">>}) # <<>>
            THEN Back({<<"m">>, <<"m", "i", "n">>, <<"m", "i", "n", "u", "t", "e">>}, 60)
       ELSE IF Ago({<<"h">>, <<"h", "r">>, <<"h", "o", "u", "r">>}) # <<>>
            THEN Back({<<"h">>, <<"h", "r">>, <<"h", "o", "u", "r">>}, HourMs)
       ELSE IF Ago({<<"d">>, <<"d", "a", "y">>}) # <<>>
            THEN Back({<<"d">>, <<"d", "a", "y">>}, DayMs)
       ELSE IF Ago({<<"w">>, <<"w", "e", "e", "k">>}) # <<>>
            THEN Back({<<"w">>, <<"w", "e", "e", "k">>}, 7 * DayMs)
       ELSE NaN

\* RealisticScrapingService.parseFacebookDate; null is NaN.
parseFacebookDate(dateText, dateNow) ==
    LET units == [minute |-> <<"m", "i", "n", "u", "t", "e">>, hour |-> <<"h", "o", "u", "r">>,
                  day |-> <<"d", "a", "y">>, week |-> <<"w", "e", "e", "k">>]
        ms == [minute |-> 60, hour |-> HourMs, day |-> DayMs, week |-> 7 * DayMs]
        Includes1(needle, lower) ==
            \E i \in 1..Len(dateText) :
                /\ ~dateText[i].num
                /\ \E k \in 1..Len(dateText[i].chars) :
                      /\ k + Len(needle) - 1 <= Len(dateText[i].chars)
                      /\ SubSeq(IF lower THEN LowerAll(dateText[i].chars)
                                ELSE dateText[i].chars,
                                k, k + Len(needle) - 1) = needle
        timeMatch == AgoCapture(dateText, {units[u] : u \in DOMAIN units})
        \* timeMatch[2]: the alternatives are tried in order.
        unit == CHOOSE u \in DOMAIN units :
                    AgoCapture(dateText, {units[u]}) = timeMatch
        \* /(January|...|December)\s+(\d{1,2})/i: the first word that ends
        \* with a month name and stands before a number.
        MonthAt(i, k) ==
            /\ ~dateText[i].num
            /\ i + 1 <= Len(dateText)
            /\ dateText[i + 1].num
            /\ LET c == LowerAll(dateText[i].chars)
                   m == MonthNames[k]
               IN /\ Len(m) <= Len(c)
                  /\ SubSeq(c, Len(c) - Len(m) + 1, Len(c)) = m
        at == { i \in 1..Len(dateText) : \E k \in 1..12 : MonthAt(i, k) }
        first == CHOOSE i \in at : \A j \in at : i <= j
        month == CHOOSE k \in 1..12 : MonthAt(first, k)
        \* parseInt(monthMatch[2]): at most two digits are captured.
        day == LET digits == dateText[first + 1].chars IN
               parseInt(IF Len(digits) > 2 THEN SubSeq(digits, 1, 2) ELSE digits, 0)
        \* const now = new Date(): every instant of the model clock falls
        \* on this day.
        today == [year |-> 2024, month |-> 6, day |-> 15]
        date == CalendarDate(today.year, month, day)
    IN IF Includes1(<<"a", "g", "o">>, FALSE) /\ timeMatch # <<>>
       THEN dateNow - parseInt(timeMatch, 0) * ms[unit]
       ELSE IF Includes1(<<"y", "e", "s", "t", "e", "r", "d", "a", "y">>, TRUE) THEN dateNow - DayMs
       ELSE IF at # {}
            THEN IF date > CalendarDate(today.year, today.month, today.day)
                 THEN CalendarDate(today.year - 1, month, day)     \* setFullYear
                 ELSE date
       ELSE DateConstructor(dateText)

\* ------------------------------------------------------------ extraction
\* A post element of the page: whether it has a <time> child, what its
\* datetime attribute holds ("iso" with value ts, "null", "garbage"), the
\* author text, and whether evaluating it throws (detached node).
Alnum == {"a", "b", "c", "1", "_"}

RECURSIVE ReplaceNonWord(_)
ReplaceNonWord(chars) ==
    IF chars = <<>> THEN <<>>
    ELSE <<IF Head(chars) \in Alnum THEN Head(chars) ELSE "_">>
            \o ReplaceNonWord(Tail(chars))

\* `${platform}_${author}_${timestamp}_${index}`.replace(/[^a-zA-Z0-9_]/g, '_')
generatePostId(platform, author, timestamp, index) ==
    <<platform, ReplaceNonWord(author), timestamp, index>>

\* new Date(attr).getTime()
DateOfAttr(el) ==
    CASE el.dt = "iso" -> el.ts
      [] el.dt = "null" -> 0
      [] OTHER -> NaN

\* Date comparison a < b: false when either side is an invalid date.
DateLess(a, b) == a # NaN /\ b # NaN /\ a < b
DateGeq(a, b) == a # NaN /\ b # NaN /\ a >= b

NoPost == [id |-> <<>>, author |-> <<>>, date |-> NaN, timestamp |-> NaN]

extractTwitterPostData(el, cutoffDate) ==
    IF el.stale THEN NoPost                         \* catch: return null
    ELSE IF ~el.hasTime THEN NoPost
    ELSE LET postDate == DateOfAttr(el) IN
         IF DateLess(postDate, cutoffDate) THEN NoPost
         ELSE IF postDate = NaN THEN NoPost         \* toISOString throws
         ELSE [id |-> generatePostId("twitter", el.author, postDate, 0),
               author |-> el.author,
               date |-> postDate,
               timestamp |-> postDate]

\* if (postDate < cutoffDate) return null
IsOlder(el, cutoffDate) ==
    ~el.stale /\ el.hasTime /\ DateLess(DateOfAttr(el), cutoffDate)

HasId(posts, id) == \E i \in 1..Len(posts) : posts[i].id = id

\* Faulty variant: the id lookup is dropped.
PushAlways(posts, tweetData) ==
    IF tweetData # NoPost THEN Append(posts, tweetData) ELSE posts

\* if (tweetData && !posts.find(p => p.id === tweetData.id)) posts.push(tweetData)
PushIfNew(posts, tweetData) ==
    IF tweetData # NoPost /\ ~HasId(posts, tweetData.id)
    THEN Append(posts, tweetData)
    ELSE posts

\* Faulty variant: an element whose extraction fails ends the iteration.
RECURSIVE ForEachTweetAborts(_, _, _, _, _)
ForEachTweetAborts(posts, page, visible, i, cutoffDate) ==
    IF i > Len(page) THEN posts
    ELSE IF i \in visible
            /\ (page[i].stale \/ ~page[i].hasTime \/ DateOfAttr(page[i]) = NaN)
    THEN posts
    ELSE LET pushed ==
                 IF i \in visible
                 THEN PushIfNew(posts, extractTwitterPostData(page[i], cutoffDate))
                 ELSE posts
         IN IF Len(pushed) = Len(posts)
            THEN ForEachTweetAborts(posts, page, visible, i + 1, cutoffDate)
            ELSE ForEachTweetAborts(pushed, page, visible, i + 1, cutoffDate)

\* for (const tweet of tweets) {...}: the elements of the page with an index
\* in visible, in page order.
RECURSIVE ForEachTweet(_, _, _, _, _)
ForEachTweet(posts, page, visible, i, cutoffDate) ==
    IF i > Len(page) THEN posts
    ELSE LET pushed ==
                 IF i \in visible
                 THEN PushIfNew(posts, extractTwitterPostData(page[i], cutoffDate))
                 ELSE posts
         IN IF Len(pushed) = Len(posts)
            THEN ForEachTweet(posts, page, visible, i + 1, cutoffDate)
            ELSE ForEachTweet(pushed, page, visible, i + 1, cutoffDate)

\* posts.filter(post => new Date(post.date) >= cutoffDate)
FilterByCutoff(posts, cutoffDate) ==
    SelectSeq(posts, LAMBDA p : DateGeq(p.date, cutoffDate))

\* ------------------------------------------------------------------ state
VARIABLES
    nodeEnv,    \* process.env.NODE_ENV
    now,        \* Date.now()
    calls,      \* calls[r]: the call client r makes (its arguments)
    page,       \* the post elements the target profile can show, in page order
    dirs,       \* the directories that exist under sessions/
    info,       \* info[d]: content of d/session_info.json, or NoInfo
    cookies,    \* the profile directories whose cookies the platform accepts
    admin,      \* whether someone uses the session administration routes
    req,        \* req[r]: where call r stands and what it holds
    limiter,    \* scrapeLimit's store: the client's hits and the window's end
    reply,      \* the last answer of a session administration route
    util        \* the last application of a scraperUtils function

vars == <<nodeEnv, now, calls, page, dirs, info, cookies, admin, req,
          limiter, reply, util>>

\* No session_info.json in the directory.
NoEmail == [local6 |-> "", rest |-> ""]
NoInfo == [email |-> NoEmail, platform |-> NoValue, lastLogin |-> NaN]

\* The client of call r is ready to make it.
CanCall(r) ==
    /\ req[r].pc = "idle"
    /\ calls[r].after => \A q \in Requests \ {r} : req[q].pc = "done"
NoResult == [success |-> FALSE]

NoResponse == [t2fa |-> Never, tsucc |-> Never, url |-> "none"]

IdleReq ==
    [ pc |-> "idle",
      dir |-> NoDir,             \* userDataDir
      browser |-> "none",        \* "none", "open", "closed"
      isLoggedIn |-> FALSE,      \* result of checkExistingSession
      response |-> NoResponse,   \* what the platform did after the click
      race |-> "none",           \* result of the Promise.race of the probes
      markerSeen |-> FALSE,      \* the logged-in marker was observed
      events |-> <<>>,           \* what the call did to the page, in order
      startedAt |-> NaN,         \* Date.now() when the call was made
      cutoffDate |-> NaN,
      scrollAttempts |-> 0,
      oldSeen |-> FALSE,         \* page.$$ has returned a post older than cutoffDate
      posts |-> <<>>,
      outcome |-> "none",        \* "none", "returned", "thrown"
      error |-> NoError,
      result |-> NoResult,
      status |-> 0 ]             \* HTTP status of the route's answer

\* scrapeLimit's store before the client's first request.
NoHits == [hits |-> 0, resetTime |-> 0]

NoReply == [route |-> "none"]

NoUtil == [fn |-> "none", applied |-> FALSE,
           timeframe |-> NoValue, duration |-> 0,
           statsText |-> <<>>, platform |-> NoValue, stats |-> NoStats,
           dateStr |-> <<>>, date |-> NaN]

Min(a, b) == IF a < b THEN a ELSE b

\* The profile directories some open browser instance holds.
HeldBy(d) == { r \in Requests : req[r].browser = "open" /\ req[r].dir = d }

AllDirs ==
    { UserDataDir(p, e, s) :
        p \in {"twitter", "instagram", "linkedin"},
        e \in Emails, s \in {NoValue, "s1"} }

\* ---------------------------------------------------------------- catch
\* scrapeWithCredentials, catch block: userDataDir is a const of the try
\* block and is not in scope here, so the cleanSession call raises a
\* ReferenceError in place of the 'Authentication failed' error.
CatchScrape(error) ==
    IF Includes(error, <<"login">>) \/ Includes(error, <<"authentication">>)
    THEN ErrReference
    ELSE error

Throw(r, error) ==
    req' = [req EXCEPT ![r].pc = "finally",
                       ![r].outcome = "thrown",
                       ![r].error = CatchScrape(error)]

\* ------------------------------------------------------ scrapeWithCredentials
\* Entry: configuration lookup (before the try block).
ScrapeWithCredentials(r) ==
    /\ CanCall(r)
    /\ calls[r].kind = "scrape"
    /\ ~calls[r].viaRoute
    /\ IF ~HasConfig(calls[r].platform)
       THEN req' = [req EXCEPT ![r].pc = "done",
                               ![r].startedAt = now,
                               ![r].outcome = "thrown",
                               ![r].error = ErrUnsupported(calls[r].platform)]
       ELSE req' = [req EXCEPT ![r].pc = "launch",
                               ![r].startedAt = now,
                               ![r].dir = UserDataDir(calls[r].platform,
                                                      calls[r].email,
                                                      calls[r].sessionId)]
    /\ UNCHANGED <<nodeEnv, now, calls, page, dirs, info, cookies, admin,
                 limiter, reply, util>>

\* launchStealthBrowser + createStealthPage.  puppeteer.launch is called
\* whatever the state of the profile; on a profile another instance holds
\* the browser either refuses to start or starts a second instance.
LaunchStealthBrowser(r) ==
    /\ req[r].pc = "launch"
    /\ \E ok \in BOOLEAN :
        IF ok
        THEN /\ req' = [req EXCEPT ![r].pc = "check", ![r].browser = "open"]
             /\ dirs' = dirs \cup {req[r].dir}
        ELSE /\ Throw(r, IF HeldBy(req[r].dir) # {} THEN ErrAlreadyRunning
                                                     ELSE ErrLaunch)
             /\ UNCHANGED dirs
    /\ UNCHANGED <<nodeEnv, now, calls, page, info, cookies, admin,
                 limiter, reply, util>>

\* checkExistingSession: navigation errors are swallowed (return false).
CheckExistingSession(r) ==
    /\ req[r].pc = "check"
    /\ \E navOk \in BOOLEAN :
        LET isLoggedIn == navOk /\ req[r].dir \in cookies IN
        req' = [req EXCEPT ![r].pc = IF isLoggedIn THEN "profile" ELSE "login",
                           ![r].isLoggedIn = isLoggedIn,
                           ![r].markerSeen = isLoggedIn,
                           ![r].events = Append(@, IF navOk THEN "goto_home"
                                                                  ELSE "goto_home_failed")]
    /\ now' = Min(now + 3, MaxNow)
    /\ UNCHANGED <<nodeEnv, calls, page, dirs, info, cookies, admin,
                 limiter, reply, util>>

\* performStealthLogin up to the click: page.goto(loginUrl), popup
\* dismissal, performLoginSteps.  navigation: how page.goto ends;
\* userFound/passFound/buttonFound: whether the selector shows up in time.
\* Faulty variant: the popups are dismissed after the username is typed.
LoginEventsPopupsLate(userFound, passFound, buttonFound, password) ==
    <<"goto_login", "wait_user">>
    \o (IF ~userFound THEN <<"wait_user">>
        ELSE <<"type_user", "popups", "wait_pass">>
             \o (IF ~passFound THEN <<"wait_pass">>
                 ELSE IF password = NoValue THEN <<"clear_pass">>
                 ELSE <<"type_pass">>
                      \o (IF ~buttonFound THEN <<"wait_button">>
                          ELSE <<"click_login", "wait_navigation">>)))

LoginEvents(userFound, passFound, buttonFound, password) ==
    <<"goto_login", "popups", "wait_user">>
    \o (IF ~userFound THEN <<"wait_user">>
        ELSE <<"type_user", "wait_pass">>
             \o (IF ~passFound THEN <<"wait_pass">>
                 ELSE IF password = NoValue THEN <<"clear_pass">>
                 ELSE <<"type_pass">>
                      \o (IF ~buttonFound THEN <<"wait_button">>
                          ELSE <<"click_login", "wait_navigation">>)))

\* The error performLoginSteps ends with, NoError when it returns.
LoginStepsError(userFound, passFound, buttonFound, password) ==
    IF ~userFound THEN ErrSelector("usernameInput")
    ELSE IF ~passFound THEN ErrSelector("passwordInput")
    ELSE IF password = NoValue
         THEN <<"text", "is", "not", "iterable">>
    ELSE IF ~buttonFound THEN ErrSelector("loginButton")
    ELSE NoError

\* A browser that is logged in gets the home page for the login URL: the
\* login form is on the page only for a profile without valid cookies.
LoginFormShown(d) == d \notin cookies

PerformLoginSteps(r) ==
    /\ req[r].pc = "login"
    /\ \E navigation \in {"ok", "neterr", "timeout"},
          userFound \in BOOLEAN, passFound \in BOOLEAN, buttonFound \in BOOLEAN :
        /\ userFound => LoginFormShown(req[r].dir)
        /\ LET config == scraperConfigs[calls[r].platform]
               error == LoginStepsError(userFound, passFound, buttonFound,
                                        calls[r].password)
           IN
           CASE navigation = "neterr" ->
                   Throw(r, ErrNet(config.loginUrl))
             [] navigation = "timeout" ->
                   Throw(r, ErrNavTimeout)
             [] OTHER ->
                   IF error # NoError
                   THEN req' = [req EXCEPT
                           ![r].pc = "finally",
                           ![r].outcome = "thrown",
                           ![r].error = CatchScrape(error),
                           ![r].events = @ \o LoginEvents(userFound, passFound,
                                               buttonFound, calls[r].password)]
                   ELSE req' = [req EXCEPT
                           ![r].pc = "postlogin",
                           ![r].events = @ \o LoginEvents(userFound, passFound,
                                               buttonFound, calls[r].password)]
    /\ UNCHANGED <<nodeEnv, now, calls, page, dirs, info, cookies, admin,
                 limiter, reply, util>>

\* What the platform does after the click: when the 2FA input and the
\* logged-in marker appear (seconds after the probes start, Never if not at
\* all), and the URL the page is left on.
PostSubmitOutcomes ==
    { [t2fa |-> Never, tsucc |-> 1,     url |-> "home"],        \* accepted
      [t2fa |-> Never, tsucc |-> 5,     url |-> "home"],        \* accepted, slow
      [t2fa |-> 1,     tsucc |-> Never, url |-> "flow"],        \* 2FA asked
      [t2fa |-> 5,     tsucc |-> Never, url |-> "flow"],        \* 2FA asked, slow
      [t2fa |-> Never, tsucc |-> Never, url |-> "login"],       \* rejected
      [t2fa |-> Never, tsucc |-> Never, url |-> "checkpoint"] } \* challenged

\* Promise.race([p2fa, psuccess, await <3 s timer>]): the timer is awaited
\* while the array is built, so the race starts RaceDelay later, against an
\* already settled 'timeout'; a probe wins only if it has settled by then,
\* and the 2FA probe, first in the array, wins over the success probe.
RaceResult(t2fa, tsucc) ==
    IF t2fa < RaceDelay THEN "2fa"
    ELSE IF tsucc < RaceDelay THEN "success"
    ELSE "timeout"

UrlNeedsVerification(url) == url \in {"challenge", "checkpoint", "verify"}

\* Faulty variant: the environment test is dropped.
Waits2FAAlways(env) == TRUE

\* handle2FAPrompt: does the call wait for manual entry?
Waits2FA(env) == env # "production"

\* handlePostLoginFlow (with handle2FAPrompt): the error it throws for
\* the race result, NoError when it returns.  entered: a person typed the
\* code in the browser window within the 2 minutes.
PostLoginError(result, url, env, entered) ==
    CASE result = "2fa" ->
            IF ~Waits2FA(env) THEN ErrLoginVerification(Err2FAProduction)
            ELSE IF ~entered THEN ErrLoginVerification(Err2FATimeout)
            ELSE NoError
      [] result = "success" -> NoError
      [] OTHER ->
            IF UrlNeedsVerification(url) THEN ErrLoginVerification(ErrVerification)
            ELSE NoError

PostLoginEvents(result, env) ==
    IF result = "2fa" /\ Waits2FA(env) THEN <<"probe", "wait_2fa">> ELSE <<"probe">>

\* The browser is logged in when the flow ends: the platform accepted the
\* credentials (the marker came, early or late) or the code was entered.
LoggedInAfter(o, result, error) ==
    \/ o.tsucc # Never
    \/ result = "2fa" /\ error = NoError

HandlePostLoginFlow(r) ==
    /\ req[r].pc = "postlogin"
    /\ \E o \in PostSubmitOutcomes, entered \in BOOLEAN :
        LET result == RaceResult(o.t2fa, o.tsucc)
            error == PostLoginError(result, o.url, nodeEnv, entered)
            d == req[r].dir
        IN
        /\ entered => result = "2fa" /\ Waits2FA(nodeEnv)
        /\ req' = [req EXCEPT
                ![r].pc = IF error = NoError THEN "save" ELSE "finally",
                ![r].response = o,
                ![r].race = result,
                ![r].markerSeen = (result = "success"),
                ![r].outcome = IF error = NoError THEN @ ELSE "thrown",
                ![r].error = IF error = NoError THEN @ ELSE CatchScrape(error),
                ![r].events = @ \o PostLoginEvents(result, nodeEnv)]
        /\ IF LoggedInAfter(o, result, error)
           THEN /\ cookies' = cookies \cup {d}
                /\ dirs' = dirs \cup {d}
           ELSE UNCHANGED <<cookies, dirs>>
    /\ UNCHANGED <<nodeEnv, now, calls, page, info, admin,
                 limiter, reply, util>>

\* saveSessionState: fs.writeJson does not create the directory; a failed
\* write is logged and ignored.
SaveSessionState(r) ==
    /\ req[r].pc = "save"
    /\ info' = IF req[r].dir \in dirs
               THEN [info EXCEPT ![req[r].dir] =
                        [email |-> calls[r].email,
                         platform |-> calls[r].platform,
                         lastLogin |-> now]]
               ELSE info
    /\ req' = [req EXCEPT ![r].pc = "profile"]
    /\ UNCHANGED <<nodeEnv, now, calls, page, dirs, cookies, admin,
                 limiter, reply, util>>

\* Faulty variant: the failed wait is not caught.
PostsWaitThrows(found) ==
    IF found THEN NoError ELSE ErrSelector("[data-testid=\"tweet\"]")

\* page.waitForSelector('[data-testid="tweet"]', ...).catch(() => warn): the
\* error scrapeTwitterPosts is left with when no tweet shows up in time.
PostsWaitError(found) == NoError

\* scrapeTargetProfile, and scrapeTwitterPosts up to its loop.  Only
\* 'twitter' and 'facebook' have a case in the switch, and 'facebook' has no
\* entry in scraperConfigs, so it never gets this far.
ScrapeTargetProfile(r) ==
    /\ req[r].pc = "profile"
    /\ \E navigation \in {"ok", "neterr", "timeout"}, found \in BOOLEAN :
        LET config == scraperConfigs[calls[r].platform]
            later == Min(now + 3, MaxNow)
        IN
        /\ found => page # <<>>
        /\ CASE navigation = "neterr" ->
                /\ Throw(r, ErrNet(<<config.profileBase, calls[r].targetUser>>))
                /\ UNCHANGED now
          [] navigation = "timeout" ->
                /\ Throw(r, ErrNavTimeout)
                /\ UNCHANGED now
          [] OTHER ->
                /\ now' = later
                /\ IF calls[r].platform = "twitter" /\ PostsWaitError(found) # NoError
                   THEN req' = [req EXCEPT
                            ![r].pc = "finally",
                            ![r].outcome = "thrown",
                            ![r].error = CatchScrape(PostsWaitError(found)),
                            ![r].events = @ \o <<"goto_profile", "popups", "wait_posts">>]
                   ELSE IF calls[r].platform = "twitter"
                   THEN req' = [req EXCEPT
                            ![r].pc = "acquire",
                            ![r].cutoffDate = CutoffDate(later, calls[r].timeframe),
                            ![r].events = @ \o <<"goto_profile", "popups", "wait_posts">>]
                   ELSE req' = [req EXCEPT
                            ![r].pc = "finally",
                            ![r].outcome = "thrown",
                            ![r].error = CatchScrape(ErrNotImplemented(calls[r].platform)),
                            ![r].events = @ \o <<"goto_profile">>]
    /\ UNCHANGED <<nodeEnv, calls, page, dirs, info, cookies, admin,
                 limiter, reply, util>>

\* while (scrollAttempts < maxScrolls && posts.length < 50)
LoopCondition(scrollAttempts, posts) ==
    scrollAttempts < maxScrollsTwitter /\ Len(posts) < postLimitTwitter

\* Faulty variant: the counter wraps and never reaches maxScrolls.
NextScrollWraps(scrollAttempts) == (scrollAttempts + 1) % 2

\* scrollAttempts++
NextScroll(scrollAttempts) == scrollAttempts + 1

\* What page.$$ can return: the timeline keeps a contiguous window of its
\* elements in the document (possibly none).  Of a page of more than
\* MaxWindowed elements only two windows are followed: all of it and none.
Windows(n) ==
    IF n <= MaxWindowed
    THEN { lo..hi : lo \in 1..(n + 1), hi \in 0..n }
    ELSE { {}, 1..n }

\* One iteration of the loop of scrapeTwitterPosts: the elements page.$$
\* returns, their extraction, the scroll.  pageOk: page.$$ and the scroll
\* did not throw.
AcquireIteration(r) ==
    /\ req[r].pc = "acquire"
    /\ LoopCondition(req[r].scrollAttempts, req[r].posts)
    /\ \E visible \in Windows(Len(page)), pageOk \in BOOLEAN :
        IF pageOk
        THEN req' = [req EXCEPT
                ![r].posts = ForEachTweet(@, page, visible, 1, req[r].cutoffDate),
                ![r].oldSeen = @ \/ \E i \in visible :
                                        IsOlder(page[i], req[r].cutoffDate),
                ![r].scrollAttempts = NextScroll(@)]
        ELSE /\ visible = {}
             /\ Throw(r, <<"Execution", "context", "was", "destroyed">>)
    /\ UNCHANGED <<nodeEnv, now, calls, page, dirs, info, cookies, admin,
                 limiter, reply, util>>

\* The return of scrapeTwitterPosts and of scrapeWithCredentials.
AcquireReturn(r) ==
    /\ req[r].pc = "acquire"
    /\ ~LoopCondition(req[r].scrollAttempts, req[r].posts)
    /\ LET posts == FilterByCutoff(req[r].posts, req[r].cutoffDate) IN
       req' = [req EXCEPT
            ![r].pc = "finally",
            ![r].outcome = "returned",
            ![r].result = [success |-> TRUE,
                           platform |-> calls[r].platform,
                           targetUser |-> calls[r].targetUser,
                           timeframe |-> calls[r].timeframe,
                           totalPosts |-> Len(posts),
                           sessionUsed |-> req[r].isLoggedIn,
                           posts |-> posts]]
    /\ UNCHANGED <<nodeEnv, now, calls, page, dirs, info, cookies, admin,
                 limiter, reply, util>>

\* finally { if (browser && NODE_ENV === 'production') await browser.close() }
ClosesBrowser(env) == env = "production"

\* The route's answer: res.json(result), or the status its catch block
\* picks from the error message.
StatusOfError(error) ==
    IF Includes(error, <<"Authentication", "failed">>) THEN 401
    ELSE IF Includes(error, <<"2FA">>) THEN 401
    ELSE IF Includes(error, <<"Rate", "limit">>) THEN 429
    ELSE 500

\* The finally block of scrapeWithCredentials; for a call made by the
\* route, the route's answer follows.
Finally(r) ==
    /\ req[r].pc = "finally"
    /\ req' = [req EXCEPT
            ![r].pc = "done",
            ![r].browser = IF @ = "open" /\ ClosesBrowser(nodeEnv)
                           THEN "closed" ELSE @,
            ![r].status = IF ~calls[r].viaRoute THEN 0
                          ELSE IF req[r].outcome = "returned" THEN 200
                          ELSE StatusOfError(req[r].error)]
    /\ UNCHANGED <<nodeEnv, now, calls, page, dirs, info, cookies, admin,
                 limiter, reply, util>>

\* ------------------------------------------------ POST /api/scrape/credentials
\* validateScrapeRequest: the schema check and the platform requirements.
AcceptedPlatforms == {"twitter", "facebook"}

ValidateScrapeRequest(body) ==
    /\ body.platform \in AcceptedPlatforms
    /\ body.timeframe \in {"1h", "6h", "12h", "1d", "3d", "7d", "30d"}
    /\ ~(body.platform = "facebook" /\ body.password = NoValue)

\* scrapeLimit = rateLimit({windowMs: 60 * 60 * 1000, max: 5}): the
\* limiter counts the client's requests in a fixed window that starts with
\* the first request after the previous window's end.
scrapeLimitWindowMs == 60 * 60
scrapeLimitMax == 5

\* The store after one more request at time t.
Hit(store, t) ==
    IF t >= store.resetTime
    THEN [hits |-> 1, resetTime |-> t + scrapeLimitWindowMs]
    ELSE [store EXCEPT !.hits = @ + 1]

\* Faulty variant: the limiter lets one request more through.
OverLimitLate(store) == store.hits > scrapeLimitMax + 1

\* The request that made the store what it is gets the 429 answer.
OverLimit(store) == store.hits > scrapeLimitMax

\* router.post('/scrape/credentials', scrapeLimit, validateScrapeRequest,
\* handler): the limiter, then validation (an invalid body is answered 400
\* at once), then the service call with platform.toLowerCase().  The schema
\* has no sessionId key and stripUnknown removes it from req.body, so the
\* handler passes sessionId = undefined to the service.
PostScrapeCredentials(r) ==
    /\ CanCall(r)
    /\ calls[r].kind = "scrape"
    /\ calls[r].viaRoute
    /\ limiter' = Hit(limiter, now)
    /\ IF OverLimit(limiter')
       THEN req' = [req EXCEPT ![r].pc = "done",
                               ![r].startedAt = now,
                               ![r].status = 429]
       ELSE IF ~ValidateScrapeRequest(calls[r])
       THEN req' = [req EXCEPT ![r].pc = "done",
                               ![r].startedAt = now,
                               ![r].status = 400]
       ELSE IF ~HasConfig(calls[r].platform)
       THEN req' = [req EXCEPT ![r].pc = "done",
                               ![r].startedAt = now,
                               ![r].outcome = "thrown",
                               ![r].error = ErrUnsupported(calls[r].platform),
                               ![r].status =
                                    StatusOfError(ErrUnsupported(calls[r].platform))]
       ELSE req' = [req EXCEPT ![r].pc = "launch",
                               ![r].startedAt = now,
                               ![r].dir = UserDataDir(calls[r].platform,
                                                      calls[r].email,
                                                      NoValue)]
    /\ UNCHANGED <<nodeEnv, now, calls, page, dirs, info, cookies, admin,
                   reply, util>>

\* ------------------------------------------------------------ testCredentials
\* Faulty variant: the catch block rethrows.
TestFailureRethrows(error) == [ outcome |-> "thrown", result |-> NoResult ]

\* catch (error) { return {loginSuccessful: false, requires2FA: ...,
\* sessionSaved: false} }: how the call ends when something has thrown.
TestFailure(error) ==
    [ outcome |-> "returned",
      result |-> [ loginSuccessful |-> FALSE,
                   requires2FA |-> Includes(error, <<"2FA">>)
                                   \/ Includes(error, <<"verification">>),
                   sessionSaved |-> FALSE ] ]

\* testCredentials up to the launch (inside its try block).
StartTest(r) ==
    /\ LET d == TestUserDataDir(calls[r].platform, calls[r].sessionId, now) IN
       \E ok \in BOOLEAN :
        IF ok
        THEN /\ req' = [req EXCEPT ![r].pc = "testlogin",
                                   ![r].startedAt = now,
                                   ![r].dir = d,
                                   ![r].browser = "open"]
             /\ dirs' = dirs \cup {d}
        ELSE /\ req' = [req EXCEPT ![r].pc = "testfinally",
                                   ![r].startedAt = now,
                                   ![r].dir = d,
                                   ![r].outcome = TestFailure(ErrLaunch).outcome,
                                   ![r].error = ErrLaunch,
                                   ![r].result = TestFailure(ErrLaunch).result]
             /\ UNCHANGED dirs
    /\ UNCHANGED <<nodeEnv, now, calls, page, info, cookies, admin,
                 limiter, reply, util>>

TestCredentials(r) ==
    /\ CanCall(r)
    /\ calls[r].kind = "test"
    /\ ~calls[r].viaRoute
    /\ StartTest(r)

\* router.post('/scrape/test-credentials'): no limiter, no schema; only
\* the presence of email, password and platform is checked.
PostTestCredentials(r) ==
    /\ CanCall(r)
    /\ calls[r].kind = "test"
    /\ calls[r].viaRoute
    /\ IF calls[r].password = NoValue \/ calls[r].platform = NoValue
       THEN /\ req' = [req EXCEPT ![r].pc = "done",
                                  ![r].startedAt = now,
                                  ![r].status = 400]
            /\ UNCHANGED <<nodeEnv, now, calls, page, dirs, info, cookies, admin,
                           limiter, reply, util>>
       ELSE StartTest(r)

\* testCredentials from page.goto(config.loginUrl) to its return: the
\* login steps, then checkLoginSuccess.  accepted: the platform logged the
\* browser in and the marker is on the page.
TestLogin(r) ==
    /\ req[r].pc = "testlogin"
    /\ \E navigation \in {"ok", "neterr", "timeout"},
          userFound \in BOOLEAN, passFound \in BOOLEAN, buttonFound \in BOOLEAN,
          accepted \in BOOLEAN :
        /\ userFound => LoginFormShown(req[r].dir)
        /\ LET error ==
                   IF ~HasConfig(calls[r].platform) THEN ErrNoLoginUrl
                   ELSE IF navigation = "neterr"
                        THEN ErrNet(scraperConfigs[calls[r].platform].loginUrl)
                   ELSE IF navigation = "timeout" THEN ErrNavTimeout
                   ELSE LoginStepsError(userFound, passFound, buttonFound,
                                        calls[r].password)
           IN
           IF error # NoError
           THEN /\ ~accepted
                /\ req' = [req EXCEPT ![r].pc = "testfinally",
                                      ![r].outcome = TestFailure(error).outcome,
                                      ![r].error = error,
                                      ![r].result = TestFailure(error).result]
                /\ UNCHANGED <<cookies, dirs>>
           ELSE /\ req' = [req EXCEPT
                       ![r].pc = "testfinally",
                       ![r].outcome = "returned",
                       ![r].markerSeen = accepted,
                       ![r].events = @ \o LoginEvents(userFound, passFound,
                                           buttonFound, calls[r].password),
                       ![r].result = [loginSuccessful |-> accepted,
                                      requires2FA |-> FALSE,
                                      sessionSaved |-> accepted]]
                /\ IF accepted
                   THEN /\ cookies' = cookies \cup {req[r].dir}
                        /\ dirs' = dirs \cup {req[r].dir}
                   ELSE UNCHANGED <<cookies, dirs>>
    /\ UNCHANGED <<nodeEnv, now, calls, page, info, admin,
                 limiter, reply, util>>

\* finally { if (browser) await browser.close() }; the route then answers
\* with res.json in its try block and in its catch block alike (status 200).
TestFinally(r) ==
    /\ req[r].pc = "testfinally"
    /\ req' = [req EXCEPT ![r].pc = "done",
                          ![r].browser = IF @ = "open" THEN "closed" ELSE @,
                          ![r].status = IF calls[r].viaRoute THEN 200 ELSE 0]
    /\ UNCHANGED <<nodeEnv, now, calls, page, dirs, info, cookies, admin,
                 limiter, reply, util>>

\* --------------------------------------------------- session administration
\* path.join(__dirname, ...rel): '..' drops the last component.
RECURSIVE PathJoin(_, _)
PathJoin(base, rel) ==
    IF rel = <<>> THEN base
    ELSE IF Head(rel) = ".."
         THEN PathJoin(SubSeq(base, 1, Len(base) - 1), Tail(rel))
         ELSE PathJoin(Append(base, Head(rel)), Tail(rel))

\* this.sessionDir of the service (src/services/scrapingService.js) and
\* sessionsDir of the routes (src/routes/scraper.js).
ServiceSessionDir == PathJoin(<<"src", "services">>, <<"..", "..", "sessions">>)
RouteSessionDir == PathJoin(<<"src", "routes">>, <<"..", "sessions">>)

\* fs.readdir(path): dirs is the content of the service's directory; the
\* program writes nowhere else.
Readdir(path) == IF path = ServiceSessionDir THEN dirs ELSE {}

\* 'this' inside the arrow-function handlers is the module's initial
\* exports object; getDirectorySize and formatBytes are attached to router,
\* which replaces module.exports, so 'this' has neither.
HandlerThis == {}

\* The session directories a handler gets through its loop body for: the
\* ones with a session_info.json for which this.getDirectorySize(...) does
\* not raise the TypeError that the loop's catch turns into 'continue'.
Processed(path) ==
    { d \in Readdir(path) :
        info[d] # NoInfo /\ "getDirectorySize" \in HandlerThis }

\* sessions.sort((a, b) => new Date(b.lastLogin) - new Date(a.lastLogin))
RECURSIVE SortByLastLogin(_)
SortByLastLogin(sessions) ==
    IF sessions = {} THEN <<>>
    ELSE LET first == CHOOSE x \in sessions :
                        \A y \in sessions : y.lastLogin <= x.lastLogin
         IN <<first>> \o SortByLastLogin(sessions \ {first})

SessionRecord(d) ==
    [sessionId |-> d, platform |-> info[d].platform, email |-> info[d].email,
     lastLogin |-> info[d].lastLogin]

\* router.get('/sessions')
GetSessions ==
    /\ admin
    /\ LET sessions == SortByLastLogin(
                            { SessionRecord(d) : d \in Processed(RouteSessionDir) })
       IN reply' = [route |-> "sessions", status |-> 200, success |-> TRUE,
                    sessions |-> sessions, totalSessions |-> Len(sessions)]
    /\ UNCHANGED <<nodeEnv, now, calls, page, dirs, info, cookies, admin, req,
                   limiter, util>>

\* router.post('/sessions/cleanup'): olderThanDays from the body.
CleanupSessions(olderThanDays) ==
    /\ admin
    /\ LET cutoffDate == now - olderThanDays * DayMs
           deleted == { d \in Processed(RouteSessionDir) :
                            DateLess(info[d].lastLogin, cutoffDate) }
       IN /\ dirs' = dirs \ deleted
          /\ cookies' = cookies \ deleted
          /\ info' = [d \in DOMAIN info |->
                        IF d \in deleted THEN NoInfo ELSE info[d]]
          /\ reply' = [route |-> "cleanup", status |-> 200, success |-> TRUE,
                       deletedSessions |-> Cardinality(deleted),
                       olderThanDays |-> olderThanDays]
    /\ UNCHANGED <<nodeEnv, now, calls, page, admin, req, limiter, util>>

\* ------------------------------------------------ DELETE /api/sessions/:id
\* path.join(sessionsDir, req.params.sessionId): d is the directory the
\* decoded parameter resolves to ('../../sessions/<name>' leads from the
\* routes' directory to the service's).
DeleteSession(d) ==
    /\ admin
    /\ d \in dirs
    /\ dirs' = dirs \ {d}
    /\ cookies' = cookies \ {d}
    /\ info' = [x \in DOMAIN info |-> IF x = d THEN NoInfo ELSE info[x]]
    /\ UNCHANGED <<nodeEnv, now, calls, page, admin, req,
                 limiter, reply, util>>

\* ----------------------------------------------------------- specification
\* A call a client makes.  after = TRUE: the client makes it once the other
\* client's call has ended (the same user calling again).
ScrapeCall(viaRoute, platform, email, sessionId, timeframe) ==
    [ kind |-> "scrape", viaRoute |-> viaRoute, platform |-> platform,
      email |-> email, password |-> "pw", targetUser |-> "elonmusk",
      sessionId |-> sessionId, timeframe |-> timeframe, after |-> FALSE ]

TestCall(platform, email, sessionId) ==
    [ kind |-> "test", viaRoute |-> FALSE, platform |-> platform,
      email |-> email, password |-> "pw", targetUser |-> NoValue,
      sessionId |-> sessionId, timeframe |-> NoValue, after |-> FALSE ]

After(call) == [call EXCEPT !.after = TRUE]
ViaRoute(call) == [call EXCEPT !.viaRoute = TRUE]
WithoutPassword(call) == [call EXCEPT !.password = NoValue]

Alice == [local6 |-> "alice1", rest |-> "@x.io"]
Bobby == [local6 |-> "bobby7", rest |-> "@x.io"]

\* Post elements.
\* author: the text under '[data-testid="User-Names"] a'; fallbackAuthor: the
\* text under the other selectors of alternativeSelectors.postAuthor.
Element(hasTime, dt, ts, author, stale) ==
    [hasTime |-> hasTime, dt |-> dt, ts |-> ts, author |-> author, stale |-> stale,
     fallbackAuthor |-> <<>>]

\* The elements the pages of the scenarios are made of.
PostElements ==
    [recent |-> Element(TRUE, "iso", T0 - 10, <<"a", ".", "b">>, FALSE),
     sameId |-> Element(TRUE, "iso", T0 - 10, <<"a", "_", "b">>, FALSE),
     twoDay |-> Element(TRUE, "iso", T0 - 2 * DayMs, <<"c">>, FALSE),
     old |-> Element(TRUE, "iso", T0 - 8 * DayMs, <<"c">>, FALSE),
     undated |-> Element(FALSE, "null", 0, <<"a">>, FALSE),
     nullDate |-> Element(TRUE, "null", 0, <<"a">>, FALSE),
     garbageDate |-> Element(TRUE, "garbage", 0, <<"a">>, FALSE),
     stale |-> Element(TRUE, "iso", T0 - 10, <<"b">>, TRUE)]

InitCommon ==
    /\ nodeEnv \in {"production", "development"}
    /\ now = T0
    /\ dirs = {}
    /\ info = [d \in AllDirs |-> NoInfo]
    /\ cookies = {}
    /\ req = [r \in Requests |-> IdleReq]
    /\ limiter = NoHits
    /\ reply = NoReply

\* Two overlapping calls for one key, or a call followed by a second one.
SessionScenarios ==
    { [calls |-> <<ScrapeCall(FALSE, "instagram", Alice, NoValue, "7d"),
                   ScrapeCall(FALSE, "instagram", Alice, NoValue, "7d")>>,
       page |-> <<>>, admin |-> FALSE],
      [calls |-> <<ScrapeCall(TRUE, "twitter", Alice, NoValue, "7d"),
                   After(ScrapeCall(TRUE, "twitter", Alice, NoValue, "7d"))>>,
       page |-> <<PostElements.recent>>, admin |-> FALSE],
      [calls |-> <<TestCall("twitter", Alice, "s1"),
                   After(ScrapeCall(FALSE, "twitter", Alice, "s1", "7d"))>>,
       page |-> <<PostElements.recent>>, admin |-> FALSE],
      [calls |-> <<ScrapeCall(TRUE, "facebook", Alice, NoValue, "7d"),
                   After(ScrapeCall(FALSE, "instagram", Alice, NoValue, "7d"))>>,
       page |-> <<PostElements.recent>>, admin |-> TRUE],
      [calls |-> <<TestCall("facebook", Alice, NoValue),
                   After(ScrapeCall(TRUE, "twitter", Bobby, "s1", "7d"))>>,
       page |-> <<PostElements.recent>>, admin |-> FALSE],
      [calls |-> <<TestCall("twitter", Bobby, "s1"),
                   After(TestCall("twitter", Bobby, "s1"))>>,
       page |-> <<>>, admin |-> FALSE],
      [calls |-> <<WithoutPassword(ScrapeCall(TRUE, "twitter", Alice, NoValue, "7d")),
                   After(ViaRoute(TestCall("myspace", Alice, NoValue)))>>,
       page |-> <<PostElements.recent>>, admin |-> FALSE] }

InitScenario(s) ==
    /\ calls = s.calls
    /\ page = s.page
    /\ admin = s.admin

Init ==
    /\ InitCommon
    /\ util = NoUtil
    /\ \E s \in SessionScenarios : InitScenario(s)

Step(r) ==
    \/ LaunchStealthBrowser(r)
    \/ CheckExistingSession(r)
    \/ PerformLoginSteps(r)
    \/ HandlePostLoginFlow(r)
    \/ SaveSessionState(r)
    \/ ScrapeTargetProfile(r)
    \/ AcquireIteration(r)
    \/ AcquireReturn(r)
    \/ Finally(r)
    \/ TestLogin(r)
    \/ TestFinally(r)

Next ==
    \/ \E r \in Requests : ScrapeWithCredentials(r)
    \/ \E r \in Requests : PostScrapeCredentials(r)
    \/ \E r \in Requests : TestCredentials(r)
    \/ \E r \in Requests : PostTestCredentials(r)
    \/ \E r \in Requests : Step(r)
    \/ \E d \in dirs : DeleteSession(d)

Spec == Init /\ [][Next]_vars

\* A credential test, then one scrape of a page that holds every kind of
\* post element, for each timeframe (known or not).
RichPage ==
    <<PostElements.recent, PostElements.sameId, PostElements.twoDay, PostElements.old, PostElements.undated, PostElements.nullDate,
      PostElements.garbageDate, PostElements.stale>>

AcquisitionScenarios ==
    { [calls |-> <<IF tf = "1h" THEN ViaRoute(TestCall("facebook", Alice, "s1"))
                                ELSE TestCall("facebook", Alice, "s1"),
                   After(ScrapeCall(tf \in {"1h", "7d", "30d"}, "twitter", Alice,
                                    NoValue, tf))>>,
       page |-> RichPage, admin |-> (tf = "2w")] :
        tf \in {"1h", "7d", "30d", "2w", "toString"} }

InitAcquisition ==
    /\ InitCommon
    /\ util = NoUtil
    /\ \E s \in AcquisitionScenarios : InitScenario(s)

AcquisitionSpec == InitAcquisition /\ [][Next]_vars

\* Every await of a call in progress settles: the driver's navigations and
\* selector waits have timeouts and timers fire.
FairSpec == AcquisitionSpec /\ \A r \in Requests : WF_vars(Step(r))

\* ------------------------------------------------------------- long page
\* Two scrapes, one after the other, with two accounts whose addresses
\* differ after the sixth character (on the last of the pages below the second
\* is refused for its platform), of a profile whose page holds one
\* recent post more than the post limit, each post with its own timestamp,
\* or of a profile without posts, or of a profile whose recent posts stand
\* between elements that cannot be extracted and which shows two posts of one
\* author with one timestamp.
LongPage ==
    [i \in 1..(postLimitTwitter + 1) |->
        Element(TRUE, "iso", T0 - 100 - i, <<"a">>, FALSE)]

FlakyPage ==
    <<PostElements.stale, PostElements.recent, PostElements.garbageDate,
      [PostElements.twoDay EXCEPT !.author = <<>>, !.fallbackAuthor = <<"c">>],
      PostElements.undated, PostElements.recent>>

InitLongPage ==
    /\ InitCommon
    /\ util = NoUtil
    /\ page \in {LongPage, <<>>, FlakyPage}
    /\ calls = <<ScrapeCall(FALSE, "twitter", Alice, NoValue, "7d"),
                 After(ScrapeCall(FALSE,
                                  IF page = FlakyPage THEN "facebook" ELSE "twitter",
                                  [Alice EXCEPT !.rest = "@y.io"], NoValue, "7d"))>>
    /\ admin = FALSE

LongPageNext ==
    \E r \in Requests :
        \/ ScrapeWithCredentials(r)
        \/ LaunchStealthBrowser(r)
        \/ CheckExistingSession(r)
        \/ PerformLoginSteps(r)
        \/ HandlePostLoginFlow(r)
        \/ SaveSessionState(r)
        \/ ScrapeTargetProfile(r)
        \/ AcquireIteration(r)
        \/ AcquireReturn(r)
        \/ Finally(r)

LongPageSpec == InitLongPage /\ [][LongPageNext]_vars

\* ------------------------------------------------------------ rate limit
\* One client that keeps sending POST /api/scrape/credentials requests, a
\* request with a platform validation rejects and a valid one, while time
\* passes; the service's own steps are left out.
LimiterCalls ==
    <<ScrapeCall(TRUE, "myspace", Alice, NoValue, "7d"),
      ScrapeCall(TRUE, "twitter", Alice, NoValue, "7d")>>

InitLimiter ==
    /\ InitCommon
    /\ util = NoUtil
    /\ calls = LimiterCalls
    /\ page = <<>>
    /\ admin = FALSE

\* The client sends its request again once the last one is answered.
Resend(r) ==
    /\ req[r].pc = "done"
    /\ limiter.hits < MaxHits
    /\ req' = [req EXCEPT ![r] = IdleReq]
    /\ UNCHANGED <<nodeEnv, now, calls, page, dirs, info, cookies, admin,
                   limiter, reply, util>>

\* Twenty minutes pass.
Tick ==
    /\ now + scrapeLimitWindowMs \div 3 <= T0 + MaxWindows * scrapeLimitWindowMs
    /\ now' = now + scrapeLimitWindowMs \div 3
    /\ UNCHANGED <<nodeEnv, calls, page, dirs, info, cookies, admin, req,
                   limiter, reply, util>>

LimiterNext ==
    \/ \E r \in Requests : PostScrapeCredentials(r)
    \/ \E r \in Requests : Resend(r)
    \/ Tick

LimiterSpec == InitLimiter /\ [][LimiterNext]_vars

\* ------------------------------------------------------- administration
\* One scrape that logs in and saves its session, while somebody uses the
\* session administration routes.
InitAdmin ==
    /\ InitCommon
    /\ util = NoUtil
    /\ calls = <<ScrapeCall(FALSE, "twitter", Alice, NoValue, "7d"),
                 After(TestCall("twitter", Alice, NoValue))>>
    /\ page = <<PostElements.recent>>
    /\ admin = TRUE

AdminNext ==
    \/ ScrapeWithCredentials(1)
    \/ LaunchStealthBrowser(1)
    \/ CheckExistingSession(1)
    \/ PerformLoginSteps(1)
    \/ HandlePostLoginFlow(1)
    \/ SaveSessionState(1)
    \/ ScrapeTargetProfile(1)
    \/ AcquireIteration(1)
    \/ AcquireReturn(1)
    \/ Finally(1)
    \/ GetSessions
    \/ \E olderThanDays \in {0, 30} : CleanupSessions(olderThanDays)
    \/ \E d \in dirs : DeleteSession(d)

AdminSpec == InitAdmin /\ [][AdminNext]_vars

\* -------------------------------------------------------------- utilities
\* The functions of scraperUtils applied to inputs of their own, with the
\* service at rest.
IdleCalls == [r \in Requests |-> TestCall("twitter", Alice, NoValue)]

TimeframeInputs ==
    {"1h", "6h", "12h", "1d", "3d", "7d", "30d", "2w", "7D", "", "1y"}
        \cup ObjectPrototypeKeys

\* The texts parseStats is applied to: one or two counts, each a number
\* next to a word, joined by a middle dot; and the empty text.
Counts ==
    LET StatNumbers ==
            {<<"1", ",", "2", "5", "0">>, <<"4", "2">>}
        StatWords ==
            {<<"l", "i", "k", "e", "s">>, <<"L", "i", "k", "e", "s">>, <<"c",
             "o", "m", "m", "e", "n", "t", "s">>, <<"r", "e", "p", "l", "i",
             "e", "s">>, <<"r", "e", "t", "w", "e", "e", "t", "s">>, <<"v",
             "i", "e", "w", "s">>, <<"d", "i", "s", "l", "i", "k", "e", "s">>,
             <<"r", "e", "a", "c", "t", "e", "d">>}
    IN {<<Num(n), Word(w)>> : n \in StatNumbers, w \in StatWords}
         \cup {<<Word(w), Num(n)>> : n \in StatNumbers, w \in StatWords}

MiddleDot == Word(<<"·">>)

StatsTexts ==
    {<<>>} \cup Counts
        \cup {c1 \o <<MiddleDot>> \o c2 : c1 \in Counts, c2 \in Counts}

StatsPlatforms ==
    {"twitter", "facebook", "instagram", "tiktok", "youtube", "linkedin",
     "constructor"}

\* The texts the date parsers are applied to: '<n> <unit> ago' and
\* '<n> <unit>s ago', 'Yesterday', a bare number, a month and a day, the
\* empty text, and two complete dates: 'March 5, 2021', 'May 12, 2024'.
DateTexts ==
    LET numbers == {<<"1">>, <<"3">>, <<"1", "2">>}
        units == {<<"s", "e", "c", "o", "n", "d">>, <<"m", "i", "n", "u", "t", "e">>, <<"h", "o", "u", "r">>, <<"d", "a", "y">>, <<"w", "e", "e", "k">>, <<"m", "o", "n", "t", "h">>}
    IN {<<Num(n), Word(u \o s), Word(<<"a", "g", "o">>)>> :
            n \in numbers, u \in units, s \in {<<>>, <<"s">>}}
         \cup {<<Word(<<"Y", "e", "s", "t", "e", "r", "d", "a", "y">>)>>, <<Word(<<"y", "e", "s", "t", "e", "r", "d", "a", "y">>)>>, <<Num(<<"5">>)>>,
               <<Word(<<"M", "a", "y">>), Num(<<"5">>)>>, <<>>,
               <<Word(<<"M", "a", "r", "c", "h">>), Num(<<"5">>), Num(<<"2", "0", "2", "1">>)>>,
               <<Word(<<"M", "a", "y">>), Num(<<"1", "2">>), Num(<<"2", "0", "2", "4">>)>>}

\* The applications to make: a function of scraperUtils (or the service's
\* parseFacebookDate) and its arguments.
UtilInputs ==
    {[NoUtil EXCEPT !.fn = "parseTimeframe", !.timeframe = timeframe] :
        timeframe \in TimeframeInputs}
      \cup {[NoUtil EXCEPT !.fn = "parseStats", !.statsText = statsText,
                           !.platform = platform] :
                statsText \in StatsTexts, platform \in StatsPlatforms}
      \cup {[NoUtil EXCEPT !.fn = fn, !.dateStr = dateStr] :
                fn \in {"parseDate", "parseFacebookDate"}, dateStr \in DateTexts}

InitUtil ==
    /\ InitCommon
    /\ util \in UtilInputs
    /\ nodeEnv = "production"
    /\ calls = IdleCalls
    /\ page = <<>>
    /\ admin = FALSE

ParseTimeframeCall ==
    /\ util.fn = "parseTimeframe" /\ ~util.applied
    /\ util' = [util EXCEPT !.duration = parseTimeframe(util.timeframe),
                            !.applied = TRUE]
    /\ UNCHANGED <<nodeEnv, now, calls, page, dirs, info, cookies, admin, req,
                   limiter, reply>>

ParseStatsCall ==
    /\ util.fn = "parseStats" /\ ~util.applied
    /\ util' = [util EXCEPT !.stats = parseStats(util.statsText, util.platform),
                            !.applied = TRUE]
    /\ UNCHANGED <<nodeEnv, now, calls, page, dirs, info, cookies, admin, req,
                   limiter, reply>>

ParseDateCall ==
    /\ util.fn \in {"parseDate", "parseFacebookDate"} /\ ~util.applied
    /\ util' = [util EXCEPT !.date = IF util.fn = "parseDate"
                                     THEN parseDate(util.dateStr, now)
                                     ELSE parseFacebookDate(util.dateStr, now),
                            !.applied = TRUE]
    /\ UNCHANGED <<nodeEnv, now, calls, page, dirs, info, cookies, admin, req,
                   limiter, reply>>

UtilNext == ParseTimeframeCall \/ ParseStatsCall \/ ParseDateCall

UtilSpec == InitUtil /\ [][UtilNext]_vars

\* ------------------------------------------------------------- properties
IsScrape(r) == calls[r].kind = "scrape"
IsTest(r) == calls[r].kind = "test"
Did(r, event) == \E i \in 1..Len(req[r].events) : req[r].events[i] = event

\* C1: at no point do two calls in progress hold a browser instance open on
\* the same profile location.
C1_ProfileOpenedOnce ==
    \A r1, r2 \in Requests :
        ( /\ r1 # r2
          /\ req[r1].pc # "done" /\ req[r2].pc # "done"
          /\ req[r1].browser = "open" /\ req[r2].browser = "open" )
        => req[r1].dir # req[r2].dir

\* The errors of a failed authentication: login form not found,
\* verification required, 2FA required, 2FA timeout.
AuthenticationErrors ==
    { ErrSelector("usernameInput"), ErrSelector("passwordInput"),
      ErrLoginVerification(ErrVerification),
      ErrLoginVerification(Err2FAProduction),
      ErrLoginVerification(Err2FATimeout) }

\* C2: when scrapeWithCredentials ends with an authentication failure, the
\* profile location and its metadata are gone at that moment.
C2_FailedLoginClearsSession ==
    [][ \A r \in Requests :
          ( /\ IsScrape(r)
            /\ req[r].pc = "finally" /\ req'[r].pc = "done"
            /\ req[r].error \in AuthenticationErrors )
          => ( /\ req[r].dir \notin dirs'
               /\ info'[req[r].dir] = NoInfo ) ]_vars

\* C3: every post of a result has a date not earlier than the time of the
\* call minus the duration of the timeframe.
C3_PostsWithinTimeframe ==
    \A r \in Requests :
        (IsScrape(r) /\ req[r].outcome = "returned") =>
            \A i \in 1..Len(req[r].result.posts) :
                DateGeq(req[r].result.posts[i].date,
                        req[r].startedAt - parseTimeframe(calls[r].timeframe))

C3_Witness ==
    \E r \in Requests :
        /\ IsScrape(r) /\ req[r].outcome = "returned"
        /\ calls[r].timeframe = "1h"
        /\ req[r].scrollAttempts = maxScrollsTwitter
        /\ req[r].result.totalPosts >= 1
        /\ req[r].cutoffDate > req[r].startedAt - parseTimeframe("1h")

UniqueIds(posts) ==
    \A i, j \in 1..Len(posts) : i # j => posts[i].id # posts[j].id

\* C4: no two posts of one result have the same id (and none of the list
\* the result is built from).
C4_UniquePostIds ==
    \A r \in Requests :
        IsScrape(r) =>
            /\ UniqueIds(req[r].posts)
            /\ req[r].outcome = "returned" => UniqueIds(req[r].result.posts)

C4_Witness ==
    \E r \in Requests :
        /\ IsScrape(r) /\ req[r].outcome = "returned"
        /\ req[r].scrollAttempts = maxScrollsTwitter
        /\ req[r].result.totalPosts >= 2

\* What the environment, not the code, made fail in call r: a navigation,
\* the page, or the launch of a browser on a profile nobody holds.
EnvironmentFailed(r) ==
    \/ Did(r, "goto_home_failed")
    \/ req[r].error \in
         { ErrLaunch, ErrNavTimeout,
           <<"Execution", "context", "was", "destroyed">> }
    \/ Includes(req[r].error, <<"net::ERR_CONNECTION_RESET">>)
    \/ req[r].error = ErrReference   \* from a reset at the login URL

\* C5: after a first call that logged in (marker observed) and returned, a
\* second call for the same key reports the session as reused and submits no
\* credentials (no session removal happens: admin is off).
C5_SecondCallReuses ==
    ( /\ IsScrape(1) /\ IsScrape(2) /\ calls[2].after /\ ~admin
      /\ req[1].outcome = "returned" /\ req[1].markerSeen
      /\ req[2].pc = "done" /\ req[2].dir = req[1].dir
      /\ ~EnvironmentFailed(2) )
    => ( /\ req[2].outcome = "returned"
         /\ req[2].isLoggedIn
         /\ ~Did(2, "type_user") /\ ~Did(2, "type_pass")
         /\ ~Did(2, "click_login") )

\* C6: when scrapeWithCredentials has ended, its browser is closed.
C6_BrowserClosedAtEnd ==
    \A r \in Requests :
        (IsScrape(r) /\ req[r].pc = "done") => req[r].browser # "open"

\* C7: when the platform rejects the credentials (no marker ever appears
\* after the submission) the route answers 401.
C7_RejectedAnswers401 ==
    \A r \in Requests :
        ( /\ IsScrape(r) /\ calls[r].viaRoute /\ req[r].pc = "done"
          /\ req[r].response =
                [t2fa |-> Never, tsucc |-> Never, url |-> "login"] )
        => req[r].status = 401

\* C8: testCredentials never raises; it returns {loginSuccessful,
\* requires2FA, sessionSaved}, with loginSuccessful and sessionSaved false
\* when something failed.
C8_TestNeverRaises ==
    \A r \in Requests :
        (IsTest(r) /\ req[r].pc \in {"testfinally", "done"}) =>
            /\ req[r].outcome = "returned"
            /\ DOMAIN req[r].result =
                    {"loginSuccessful", "requires2FA", "sessionSaved"}
            /\ req[r].error # NoError =>
                    ~req[r].result.loginSuccessful /\ ~req[r].result.sessionSaved

C8_Witness ==
    \E r \in Requests :
        /\ IsTest(r) /\ req[r].pc = "done"
        /\ ~HasConfig(calls[r].platform)
        /\ req[r].error = ErrNoLoginUrl
        /\ ~req[r].result.loginSuccessful

\* C9: in production a detected 2FA prompt fails the authentication at once
\* with the 2FA-required error: no wait for manual entry, no acquisition.
C9_Production2FAFailsFast ==
    \A r \in Requests :
        (IsScrape(r) /\ nodeEnv = "production" /\ req[r].race = "2fa") =>
            /\ req[r].pc \in {"finally", "done"}
            /\ req[r].outcome = "thrown"
            /\ Includes(req[r].error, <<"2FA", "required">>)
            /\ ~Did(r, "wait_2fa")
            /\ ~Did(r, "goto_profile")
            /\ req[r].scrollAttempts = 0

C9_Witness ==
    \E r \in Requests :
        /\ IsScrape(r) /\ nodeEnv = "production" /\ req[r].race = "2fa"
        /\ req[r].pc = "done"
        /\ req[r].error = ErrLoginVerification(Err2FAProduction)

\* C10: every call that has started eventually ends (returns or throws).
C10_EveryCallEnds ==
    \A r \in Requests : (req[r].pc # "idle") ~> (req[r].pc = "done")

C10_Witness ==
    \E r \in Requests :
        /\ IsScrape(r) /\ req[r].pc = "done"
        /\ req[r].outcome = "returned"
        /\ req[r].scrollAttempts = maxScrollsTwitter
        /\ Did(r, "wait_2fa")

\* C11: parseTimeframe maps 1h, 6h, 12h, 1d, 3d, 7d, 30d to their durations
\* (here in units of 1000 ms) and every other string to the duration of 7d.
C11_ParseTimeframeTable ==
    (util.fn = "parseTimeframe" /\ util.applied) =>
        util.duration =
            CASE util.timeframe = "1h"  -> 60 * 60
              [] util.timeframe = "6h"  -> 6 * 60 * 60
              [] util.timeframe = "12h" -> 12 * 60 * 60
              [] util.timeframe = "1d"  -> 24 * 60 * 60
              [] util.timeframe = "3d"  -> 3 * 24 * 60 * 60
              [] util.timeframe = "7d"  -> 7 * 24 * 60 * 60
              [] util.timeframe = "30d" -> 30 * 24 * 60 * 60
              [] OTHER -> 7 * 24 * 60 * 60

\* C12: a scrapeWithCredentials call for a platform that validation accepts
\* (twitter, facebook) never fails with 'Unsupported platform' or 'Scraping
\* not implemented for platform'.
C12_AcceptedPlatformsScrape ==
    \A r \in Requests :
        ( /\ IsScrape(r) /\ calls[r].platform \in AcceptedPlatforms
          /\ req[r].pc = "done" )
        => ( /\ ~Includes(req[r].error, <<"Unsupported", "platform">>)
             /\ ~Includes(req[r].error, <<"Scraping", "not", "implemented">>) )

\* C13: a POST /api/scrape/credentials request that carries a sessionId
\* uses the profile location <platform>_<sessionId>.
C13_RouteUsesSessionId ==
    \A r \in Requests :
        ( /\ IsScrape(r) /\ calls[r].viaRoute
          /\ calls[r].sessionId # NoValue
          /\ req[r].dir # NoDir )
        => req[r].dir = <<"", calls[r].platform, calls[r].sessionId>>

\* C14: POST /api/scrape/credentials answers 400 to every request without
\* a password, before any browser is launched or anything is typed.
C14_PasswordRequired ==
    \A r \in Requests :
        ( /\ IsScrape(r) /\ calls[r].viaRoute
          /\ calls[r].password = NoValue
          /\ req[r].pc # "idle" )
        => ( /\ req[r].pc = "done" /\ req[r].status = 400
             /\ req[r].browser = "none" /\ req[r].events = <<>> )

\* C15: POST /api/scrape/test-credentials answers 400 to a platform outside
\* the supported set, without launching a browser or attempting a login.
C15_TestRejectsPlatform ==
    \A r \in Requests :
        ( /\ IsTest(r) /\ calls[r].viaRoute
          /\ calls[r].platform \notin AcceptedPlatforms
          /\ req[r].pc # "idle" )
        => ( /\ req[r].pc = "done" /\ req[r].status = 400
             /\ req[r].browser = "none" /\ req[r].events = <<>> )

Stored == { d \in dirs : info[d] # NoInfo }

\* C17: GET /api/sessions lists every stored session with its platform,
\* email and lastLogin, exactly one entry each, and totalSessions is the
\* length of the list.
C17_SessionsListed ==
    [][ (reply' # reply /\ reply'.route = "sessions") =>
          /\ reply'.totalSessions = Len(reply'.sessions)
          /\ Len(reply'.sessions) = Cardinality(Stored)
          /\ \A d \in Stored :
                \E i \in 1..Len(reply'.sessions) :
                    reply'.sessions[i] = SessionRecord(d) ]_vars

\* C18: POST /api/sessions/cleanup with olderThanDays = d deletes exactly
\* the stored sessions whose lastLogin is earlier than now - d days and
\* answers success with deletedSessions = the number deleted.
C18_CleanupDeletesOld ==
    [][ (reply' # reply /\ reply'.route = "cleanup") =>
          LET old == { d \in Stored :
                         info[d].lastLogin < now - reply'.olderThanDays * 24 * 60 * 60 }
          IN /\ dirs' = dirs \ old
             /\ \A d \in old : info'[d] = NoInfo
             /\ reply'.success
             /\ reply'.deletedSessions = Cardinality(old) ]_vars

\* What the environment made fail in test call r: the launch or the
\* navigation to the login page.
TestEnvironmentFailed(r) ==
    \/ req[r].error \in {ErrLaunch, ErrNavTimeout}
    \/ Includes(req[r].error, <<"net::ERR_CONNECTION_RESET">>)

\* C19: two testCredentials calls with the same valid credentials, platform
\* and sessionId, and no session removal in between, both report
\* loginSuccessful = true.
C19_TestIdempotent ==
    ( /\ IsTest(1) /\ IsTest(2) /\ calls[2].after /\ ~admin
      /\ calls[1].sessionId # NoValue
      /\ calls[2] = After(calls[1])
      /\ req[1].pc = "done" /\ req[2].pc = "done"
      /\ req[1].result.loginSuccessful
      /\ ~TestEnvironmentFailed(2) )
    => req[2].result.loginSuccessful

\* The text "1,250 likes · 42 comments".
ExampleParsed ==
    /\ util.fn = "parseStats" /\ util.applied
    /\ util.statsText =
          <<Num(<<"1", ",", "2", "5", "0">>), Word(<<"l", "i", "k", "e", "s">>),
            MiddleDot,
            Num(<<"4", "2">>), Word(<<"c", "o", "m", "m", "e", "n", "t", "s">>)>>
    /\ util.platform = "twitter"

C21_RelativeDates ==
    LET unitMs == [second |-> 1, minute |-> 60, hour |-> HourMs, day |-> DayMs,
                   week |-> 7 * DayMs]
        word == [second |-> <<"s", "e", "c", "o", "n", "d">>,
                 minute |-> <<"m", "i", "n", "u", "t", "e">>,
                 hour |-> <<"h", "o", "u", "r">>, day |-> <<"d", "a", "y">>,
                 week |-> <<"w", "e", "e", "k">>]
        text == util.dateStr
    IN (util.fn \in {"parseDate", "parseFacebookDate"} /\ util.applied) =>
          /\ \A u \in DOMAIN word, s \in {<<>>, <<"s">>} :
                (/\ Len(text) = 3
                 /\ text[1].num
                 /\ text[2] = Word(word[u] \o s)
                 /\ text[3] = Word(<<"a", "g", "o">>))
                    => util.date = now - parseInt(text[1].chars, 0) * unitMs[u]
          /\ text = <<Word(<<"Y", "e", "s", "t", "e", "r", "d", "a", "y">>)>>
                => util.date = now - DayMs

\* C22: a scrape call gets past authentication (session metadata written,
\* profile navigation and acquisition started, result returned) only if
\* the platform's logged-in marker was observed, in the existing-session
\* check or in the post-submit probe.
C22_AuthenticatedOnlyWithMarker ==
    \A r \in Requests :
        ( /\ IsScrape(r)
          /\ \/ req[r].pc \in {"save", "profile", "acquire"}
             \/ req[r].outcome = "returned" )
        => req[r].markerSeen

\* C23: the result of the race follows the first event: '2fa' only if the
\* 2FA marker appeared before the logged-in marker, 'success' only if the
\* logged-in marker appeared first, 'timeout' only if neither appeared
\* within the probes' timeout.
C23_RaceFollowsFirstEvent ==
    \A r \in Requests :
        LET o == req[r].response IN
        /\ req[r].race = "2fa" => o.t2fa < ProbeTimeout /\ o.t2fa < o.tsucc
        /\ req[r].race = "success" => o.tsucc < ProbeTimeout /\ o.tsucc < o.t2fa
        /\ req[r].race = "timeout" =>
                o.t2fa >= ProbeTimeout /\ o.tsucc >= ProbeTimeout

\* C24: when a scrape call has returned its result, the session record of
\* its profile directory exists and its lastLogin is not older than the
\* call.
C24_LastLoginCurrent ==
    \A r \in Requests :
        (IsScrape(r) /\ req[r].outcome = "returned") =>
            /\ info[req[r].dir] # NoInfo
            /\ info[req[r].dir].lastLogin >= req[r].startedAt

Times(r, event) ==
    Cardinality({i \in 1..Len(req[r].events) : req[r].events[i] = event})

\* C25: when the username (or the password) input does not show up within
\* the form-lookup timeout, the login ends there: that selector is waited
\* for once, nothing is typed into it, the login button is not clicked and
\* no other selector wait is started.
C25_FormLookupFailsFast ==
    \A r \in Requests :
        (IsScrape(r) /\ req[r].pc \in {"finally", "done"}) =>
            /\ (Did(r, "wait_user") /\ ~Did(r, "type_user"))
               => /\ Times(r, "wait_user") = 1
                  /\ req[r].outcome = "thrown"
                  /\ ~Did(r, "wait_pass") /\ ~Did(r, "click_login")
            /\ ( /\ Did(r, "wait_pass")
                 /\ ~Did(r, "type_pass") /\ ~Did(r, "clear_pass") )
               => /\ Times(r, "wait_pass") = 1
                  /\ req[r].outcome = "thrown"
                  /\ ~Did(r, "wait_button") /\ ~Did(r, "click_login")

\* The errors of a failed navigation.
NavigationErrors ==
    {ErrNavTimeout}
        \cup {ErrNet(scraperConfigs[p].loginUrl) : p \in DOMAIN scraperConfigs}
        \cup {ErrNet(<<scraperConfigs[p].profileBase, u>>) :
                p \in DOMAIN scraperConfigs, u \in {calls[r].targetUser : r \in Requests}}

\* C26: when the load of the login page or of the profile fails, the call
\* ends with that navigation error, and no profile directory is deleted.
C26_NavigationErrorSurfaced ==
    [][ \A r \in Requests :
            ( /\ IsScrape(r)
              /\ req[r].pc \in {"login", "profile"}
              /\ req'[r].pc = "finally"
              /\ req'[r].events = req[r].events )
            => /\ req'[r].error \in NavigationErrors
               /\ dirs' = dirs ]_vars

\* The first time call r did the event.
First(r, event) ==
    CHOOSE i \in 1..Len(req[r].events) :
        /\ req[r].events[i] = event
        /\ \A j \in 1..(i - 1) : req[r].events[j] # event

Precedes(r, a, b) == Did(r, b) => Did(r, a) /\ First(r, a) < First(r, b)

\* C27: within a login attempt the login page is loaded before the popups
\* are dismissed, the popups are dismissed before the username is typed,
\* the username before the password, the password before the click, and
\* the verification probes start only after the click.
C27_LoginStepOrder ==
    \A r \in Requests :
        /\ Did(r, "goto_login") =>
                Did(r, "popups") /\ First(r, "goto_login") < First(r, "popups")
        /\ Precedes(r, "goto_login", "type_user")
        /\ Precedes(r, "popups", "type_user")
        /\ Precedes(r, "type_user", "type_pass")
        /\ Precedes(r, "type_pass", "click_login")
        /\ Precedes(r, "click_login", "probe")

C27_Witness ==
    \E r \in Requests :
        /\ IsScrape(r)
        /\ Did(r, "probe")
        /\ req[r].race = "success"
        /\ req[r].pc = "done"

\* C28: the acquisition loop of a twitter scrape runs at most the number of
\* iterations platformSettings configures as maxScrolls.
C28_ConfiguredMaxScrolls ==
    \A r \in Requests :
        (IsScrape(r) /\ calls[r].platform = "twitter") =>
            req[r].scrollAttempts <= platformSettings.twitter.maxScrolls

\* C29: a twitter scrape never returns more posts than the post limit.
C29_PostLimit ==
    \A r \in Requests :
        (IsScrape(r) /\ req[r].outcome = "returned") =>
            /\ req[r].result.totalPosts <= postLimitTwitter
            /\ Len(req[r].result.posts) <= postLimitTwitter

\* C30: an iteration of the acquisition loop that adds no post, when a post
\* older than the cutoff has been seen, is the last one: the loop condition
\* is false after it.
C30_StopsAfterEmptyIteration ==
    [][ \A r \in Requests :
            ( /\ req[r].pc = "acquire" /\ req'[r].pc = "acquire"
              /\ req'[r].scrollAttempts = req[r].scrollAttempts + 1
              /\ req'[r].posts = req[r].posts
              /\ req'[r].oldSeen )
            => ~LoopCondition(req'[r].scrollAttempts, req'[r].posts) ]_vars

ExtractionFails(el) == el.stale \/ ~el.hasTime \/ DateOfAttr(el) = NaN

\* C32: an iteration of the scrape loop that meets elements whose extraction
\* fails (exception, missing or unparseable date) still holds, when it is
\* over, every element of the iteration that can be extracted and is not
\* older than the cutoff, and the loop goes on.
C32_FailedElementDropsAlone ==
    [][\A r \in Requests :
        (req[r].pc = "acquire" /\ req'[r].scrollAttempts # req[r].scrollAttempts) =>
            /\ req'[r].pc = "acquire"
            /\ \A visible \in Windows(Len(page)) :
                ( /\ req'[r].posts =
                        ForEachTweet(req[r].posts, page, visible, 1, req[r].cutoffDate)
                  /\ \E j \in visible : ExtractionFails(page[j]) ) =>
                    \A i \in visible :
                        ( /\ ~ExtractionFails(page[i])
                          /\ ~DateLess(DateOfAttr(page[i]), req[r].cutoffDate) ) =>
                            HasId(req'[r].posts,
                                  generatePostId("twitter", page[i].author,
                                                 DateOfAttr(page[i]), 0))]_vars

\* One iteration over contiguous elements has produced both recent posts of
\* the page, so it has also met the element with the unparseable date that
\* stands between them.
C32_Witness ==
    \E r \in Requests :
        /\ page = FlakyPage
        /\ req[r].scrollAttempts = 1
        /\ Len(req[r].posts) = 2

\* C33: the author of a produced post is the first non-empty match of the
\* primary author selector and then of the configured fallback selectors.
C33_FallbackSelectors ==
    \A r \in Requests : \A i \in 1..Len(req[r].posts) : \A j \in 1..Len(page) :
        ( /\ page[j].dt = "iso"
          /\ page[j].ts = req[r].posts[i].timestamp ) =>
            req[r].posts[i].author =
                IF page[j].author # <<>> THEN page[j].author
                ELSE page[j].fallbackAuthor

\* C34: within one scrape, two distinct post elements that are both extracted
\* never receive the same id.
C34_DistinctElementsDistinctIds ==
    \A r \in Requests :
        (IsScrape(r) /\ req[r].pc = "acquire") =>
            \A i, j \in 1..Len(page) :
                LET a == extractTwitterPostData(page[i], req[r].cutoffDate)
                    b == extractTwitterPostData(page[j], req[r].cutoffDate)
                IN (i # j /\ a # NoPost /\ b # NoPost) => a.id # b.id

\* C35: parseFacebookDate turns a text that is a complete absolute date,
\* month name, day and year, into exactly that day.
C35_AbsoluteDateKept ==
    LET text == util.dateStr IN
    (util.fn = "parseFacebookDate" /\ util.applied) =>
        \A k \in 1..12 :
            ( /\ Len(text) = 3
              /\ ~text[1].num /\ LowerAll(text[1].chars) = MonthNames[k]
              /\ text[2].num /\ Len(text[2].chars) <= 2
              /\ text[3].num /\ Len(text[3].chars) = 4 ) =>
                util.date = CalendarDate(parseInt(text[3].chars, 0), k,
                                         parseInt(text[2].chars, 0))

\* C36: the stats object parseStats returns has keys only from likes,
\* comments, shares and views, for every platform and every stats text.
C36_StatsKeys ==
    (util.fn = "parseStats" /\ util.applied) =>
        DOMAIN util.stats \subseteq {"likes", "comments", "shares", "views"}

\* C37: two scrape calls without sessionId for different (platform, account)
\* pairs never use the same profile directory.
C37_ProfilePerAccount ==
    \A r, q \in Requests :
        ( /\ IsScrape(r) /\ IsScrape(q)
          /\ calls[r].sessionId = NoValue /\ calls[q].sessionId = NoValue
          /\ <<calls[r].platform, calls[r].email>> # <<calls[q].platform, calls[q].email>>
          /\ req[r].dir # NoDir /\ req[q].dir # NoDir ) =>
            req[r].dir # req[q].dir

\* C38: after testCredentials has returned sessionSaved = true, a following
\* scrapeWithCredentials with the same platform, email and sessionId resolves
\* to the profile directory the test logged in to, and does not open the
\* login page again.
C38_TestedSessionReused ==
    \A r, q \in Requests :
        ( /\ IsTest(r) /\ IsScrape(q) /\ calls[q].after
          /\ calls[r].platform = calls[q].platform
          /\ calls[r].email = calls[q].email
          /\ calls[r].sessionId = calls[q].sessionId
          /\ req[r].pc = "done" /\ req[r].outcome = "returned"
          /\ req[r].result.sessionSaved ) =>
            /\ req[q].dir # NoDir => req[q].dir = req[r].dir
            /\ ~Did(q, "goto_login")

\* C39: no step removes a profile directory while a call holds a browser
\* open on it (which includes the calls that are logging in to it).
C39_NoRemovalWhileHeld ==
    [][\A d \in dirs : d \notin dirs' => HeldBy(d) = {}]_vars

\* ------------------------------------------- ScrapingService.scrapeProfile
\* The legacy flow.  Entry and puppeteer.launch: without a configuration the
\* call throws before its try block; a failure inside the try block is
\* rethrown by the catch block as 'Scraping failed: <message>'.
ScrapeProfile(r) ==
    /\ req[r].pc = "idle"
    /\ CanCall(r)
    /\ \E ok \in BOOLEAN :
        IF ~HasConfig(calls[r].platform)
        THEN /\ ok
             /\ req' = [req EXCEPT ![r].pc = "done",
                                   ![r].outcome = "thrown",
                                   ![r].error = ErrUnsupported(calls[r].platform)]
        ELSE IF ~ok
        THEN req' = [req EXCEPT ![r].pc = "close",
                                ![r].outcome = "thrown",
                                ![r].error = <<"Scraping", "failed", ":">> \o ErrLaunch]
        ELSE req' = [req EXCEPT
                        ![r].pc = IF calls[r].password # NoValue THEN "performLogin"
                                                                 ELSE "goto",
                        ![r].browser = "open",
                        ![r].startedAt = now]
    /\ UNCHANGED <<nodeEnv, now, calls, page, dirs, info, cookies, admin,
                 limiter, reply, util>>

\* performLogin with handle2FA.  navigation: how page.goto(loginUrl) ends;
\* userFound, passFound, buttonFound: whether page.type and page.click find
\* their element; navigated: waitForNavigation settles in time; prompt: the
\* platform's 2FA input shows up within handle2FA's wait.
PerformLogin(r) ==
    /\ req[r].pc = "performLogin"
    /\ \E navigation \in {"ok", "neterr", "timeout"},
          userFound \in BOOLEAN, passFound \in BOOLEAN, buttonFound \in BOOLEAN,
          navigated \in BOOLEAN, prompt \in BOOLEAN :
        LET config == scraperConfigs[calls[r].platform]
            NoElement(sel) == <<"No", "element", "found", "for", "selector", ":", sel>>
            \* try { await waitForSelector(twoFASelector); throw new Error('2FA
            \* verification required. ...') } catch (error) { /* continue */ }:
            \* the catch block takes the timeout and the thrown error alike.
            handle2FA == NoError
            error ==
                IF navigation = "neterr" THEN ErrNet(config.loginUrl)
                ELSE IF navigation = "timeout" THEN ErrNavTimeout
                ELSE IF ~userFound THEN NoElement("usernameInput")
                ELSE IF ~passFound THEN NoElement("passwordInput")
                ELSE IF ~buttonFound THEN NoElement("loginButton")
                ELSE IF ~navigated THEN ErrNavTimeout
                ELSE handle2FA
            events ==
                <<"goto_login">>
                    \o (IF navigation = "ok" THEN <<"popups">> ELSE <<>>)
                    \o (IF navigation = "ok" /\ userFound THEN <<"type_user">> ELSE <<>>)
                    \o (IF navigation = "ok" /\ userFound /\ passFound
                        THEN <<"type_pass">> ELSE <<>>)
                    \o (IF navigation = "ok" /\ userFound /\ passFound /\ buttonFound
                        THEN <<"click_login">> ELSE <<>>)
                    \o (IF navigation = "ok" /\ userFound /\ passFound /\ buttonFound
                            /\ navigated /\ prompt
                        THEN <<"2fa_prompt">> ELSE <<>>)
        IN
        /\ (navigation # "ok" \/ ~userFound \/ ~passFound \/ ~buttonFound \/ ~navigated)
                => ~prompt
        /\ IF error # NoError
           THEN req' = [req EXCEPT ![r].pc = "close",
                                   ![r].outcome = "thrown",
                                   ![r].error = <<"Scraping", "failed", ":">> \o error,
                                   ![r].events = @ \o events]
           ELSE req' = [req EXCEPT ![r].pc = "goto",
                                   ![r].events = @ \o events]
    /\ UNCHANGED <<nodeEnv, now, calls, page, dirs, info, cookies, admin,
                 limiter, reply, util>>

\* page.goto(targetUrl), loadMoreContent, extractPostData and the return of
\* scrapeProfile.  lo..hi: the elements page.$$(config.selectors.posts)
\* returns (none: the wait for the posts selector fails and extractPostData
\* returns no posts).
ExtractPostData(r) ==
    /\ req[r].pc = "goto"
    /\ \E navigation \in {"ok", "neterr", "timeout"},
          lo \in 1..(Len(page) + 1), hi \in 0..Len(page) :
        LET config == scraperConfigs[calls[r].platform]
            cutoffDate == CutoffDate(now, calls[r].timeframe)
            postElements == SubSeq(page, lo, hi)
            \* new Date(postData.dateStr): the datetime attribute, else the
            \* title or the text of the date element, which is no date here.
            DateOf(el) == IF el.hasTime /\ el.dt = "iso" THEN el.ts ELSE NaN
            \* extractSinglePost returns null, the date is invalid, or the
            \* post is older than the cutoff: continue.
            Kept(el) ==
                /\ ~el.stale
                /\ DateOf(el) # NaN
                /\ ~DateLess(DateOf(el), cutoffDate)
            RECURSIVE Loop(_, _)
            Loop(posts, i) ==
                IF i > Len(postElements) \/ i > 50 THEN posts
                ELSE IF Kept(postElements[i])
                THEN Loop(Append(posts,
                                 [id |-> <<"post", i - 1, now>>,
                                  author |-> postElements[i].author,
                                  date |-> DateOf(postElements[i]),
                                  timestamp |-> DateOf(postElements[i])]),
                          i + 1)
                ELSE Loop(posts, i + 1)
            posts == Loop(<<>>, 1)
        IN
        /\ navigation # "ok" => (lo = 1 /\ hi = 0)
        /\ IF navigation # "ok"
           THEN req' = [req EXCEPT
                    ![r].pc = "close",
                    ![r].outcome = "thrown",
                    ![r].error = <<"Scraping", "failed", ":">>
                        \o (IF navigation = "neterr"
                            THEN ErrNet(<<config.profileBase, calls[r].targetUser>>)
                            ELSE ErrNavTimeout),
                    ![r].events = Append(@, "goto_profile_failed")]
           ELSE req' = [req EXCEPT
                    ![r].pc = "close",
                    ![r].outcome = "returned",
                    ![r].cutoffDate = cutoffDate,
                    ![r].posts = posts,
                    ![r].events = @ \o <<"goto_profile", "load_more", "extract">>,
                    ![r].result = [success |-> TRUE,
                                   platform |-> calls[r].platform,
                                   targetUser |-> calls[r].targetUser,
                                   timeframe |-> calls[r].timeframe,
                                   totalPosts |-> Len(posts),
                                   posts |-> posts]]
    /\ UNCHANGED <<nodeEnv, now, calls, page, dirs, info, cookies, admin,
                 limiter, reply, util>>

\* finally { if (browser) await browser.close() }
CloseBrowser(r) ==
    /\ req[r].pc = "close"
    /\ req' = [req EXCEPT ![r].pc = "done",
                          ![r].browser = IF @ = "open" THEN "closed" ELSE @]
    /\ UNCHANGED <<nodeEnv, now, calls, page, dirs, info, cookies, admin,
                 limiter, reply, util>>

\* Two calls of scrapeProfile, at the same time or one after the other, with
\* and without a password, for a profile of three posts.
InitScrapeProfile ==
    /\ InitCommon
    /\ util = NoUtil
    /\ \E first \in {"twitter", "instagram", "facebook"}, sequential \in BOOLEAN,
          anonymous \in BOOLEAN :
        LET second == ScrapeCall(FALSE, "twitter", Bobby, NoValue, "7d") IN
        calls = <<ScrapeCall(FALSE, first, Alice, NoValue, "1d"),
                  IF sequential
                  THEN After(IF anonymous THEN WithoutPassword(second) ELSE second)
                  ELSE IF anonymous THEN WithoutPassword(second) ELSE second>>
    /\ page = <<PostElements.recent, PostElements.twoDay, PostElements.garbageDate>>
    /\ admin = FALSE

ScrapeProfileNext ==
    \E r \in Requests :
        \/ ScrapeProfile(r)
        \/ PerformLogin(r)
        \/ ExtractPostData(r)
        \/ CloseBrowser(r)

ScrapeProfileSpec == InitScrapeProfile /\ [][ScrapeProfileNext]_vars

\* C40: in the legacy flow, once the platform's 2FA input has appeared
\* after the login click, scrapeProfile does not navigate to the target
\* profile and ends with a '2FA verification required' error.
C40_Legacy2FAStops ==
    \A r \in Requests :
        Did(r, "2fa_prompt") =>
            /\ ~Did(r, "goto_profile") /\ ~Did(r, "goto_profile_failed")
            /\ req[r].pc \in {"close", "done"} =>
                /\ req[r].outcome = "thrown"
                /\ Includes(req[r].error, <<"2FA">>)

====
